---- MODULE Spec2Model ----
(***************************************************************************)
(* Verification model of the CsvCompare scripts: label normalisation,      *)
(* numeric detection and parsing, keyed comparison of two exports, and the *)
(* "space technique" table extraction.                                     *)
(*                                                                         *)
(* A string is a sequence of characters.  A character is a one-letter      *)
(* string, or a name for a character outside ASCII:                        *)
(*   "ENDASH" U+2013, "EMDASH" U+2014, "BOM" U+FEFF, "RUPEE" U+20B9,       *)
(*   "EURO" U+20AC.                                                        *)
(***************************************************************************)
EXTENDS Integers, Sequences, FiniteSets, TLC

VARIABLES
    nText, nOnce, nTwice, nPc,     \* label normalisation: input, one pass, two passes
    prog, file1, file2, tolArg,    \* a comparison script and the two exports it is given
    out, cmpPc,                    \* what the script computed
    cCell, cLooks, cParsed, cPc,   \* a cell, whether it looks numeric, its parsed value
    bGrid, bCols, bSectionRow,     \* a call of find_table_blocks_in_section,
    bR, bBlocks, bPc,              \* its scan row and its blocks so far
    mGrids, mHeaderRows,           \* rbuSpace.main: the grids read, --header-rows,
    mSectionRow, mNext,            \* --section-row, the number of the next input,
    mRecords, mOut, mPc,           \* all_records, the outcome
    hRows, hGroupRow, hDetailRow,  \* DataValidationRates.main: the rows read, --group-row,
    hHeaders, hPc,                 \* --detail-row, the composite headers
    eGrid, eHeaderRows,            \* a call of extract_space_technique: its grid,
    eSectionRow, eOut, ePc,        \* header_rows, section_row, and what it computed
    xScript, xHeaders1, xHeaders2, \* compare_cells_name_based of a script: the headers,
    xRows1, xRows2, xStartRow,     \* the rows, --start-row,
    xOrder, xOut, xOutReordered,   \* an order of file 2's columns, the two results
    xPc,
    sGrid, sHeaderRows,            \* a call of map_section_labels_by_col: its grid,
    sSectionRow, sC, sMap, sPc,    \* header_rows, section_row, its column c, sec_map
    tScript, tGrid, tSectionRow,   \* a call of extract_records of rbu.py or rbuSpace.py,
    tTables, tHeaderRows,          \* the tables still to do, the header rows, the
    tR, tBottom, tRecords, tPc,    \* data row and the bottom of the table at hand, records
    dGrid, dHeaderRows,            \* extract_space_technique with and without date
    dSectionRow, dDated, dPlain,   \* window parsing: the grid, the two results
    dPc,
    uRows, uRecs, uPc              \* build_records: the sheet, the Records, position

varsNorm == <<nText, nOnce, nTwice, nPc>>

varsCmp == <<prog, file1, file2, tolArg, out, cmpPc>>

varsNum == <<cCell, cLooks, cParsed, cPc>>

varsBlocks == <<bGrid, bCols, bSectionRow, bR, bBlocks, bPc>>

varsMain == <<mGrids, mHeaderRows, mSectionRow, mNext, mRecords, mOut, mPc>>

varsHeaders == <<hRows, hGroupRow, hDetailRow, hHeaders, hPc>>

varsExtract == <<eGrid, eHeaderRows, eSectionRow, eOut, ePc>>

varsSections == <<sGrid, sHeaderRows, sSectionRow, sC, sMap, sPc>>

varsTables == <<tScript, tGrid, tSectionRow, tTables, tHeaderRows, tR, tBottom, tRecords, tPc>>

varsDates == <<dGrid, dHeaderRows, dSectionRow, dDated, dPlain, dPc>>

varsBuild == <<uRows, uRecs, uPc>>

varsNameBased ==
    <<xScript, xHeaders1, xHeaders2, xRows1, xRows2, xStartRow, xOrder, xOut, xOutReordered, xPc>>

vars == <<varsNorm, varsCmp, varsNum, varsBlocks, varsMain, varsHeaders, varsExtract,
            varsNameBased, varsSections, varsTables, varsDates, varsBuild>>

\* what a step of one part leaves alone: the variables of the other parts
OutsideNorm ==
    <<varsCmp, varsNum, varsBlocks, varsMain, varsHeaders, varsExtract, varsNameBased,
      varsSections, varsTables, varsDates, varsBuild>>

OutsideCmp ==
    <<varsNorm, varsNum, varsBlocks, varsMain, varsHeaders, varsExtract, varsNameBased,
      varsSections, varsTables, varsDates, varsBuild>>

OutsideNum ==
    <<varsNorm, varsCmp, varsBlocks, varsMain, varsHeaders, varsExtract, varsNameBased,
      varsSections, varsTables, varsDates, varsBuild>>

OutsideBlocks ==
    <<varsNorm, varsCmp, varsNum, varsMain, varsHeaders, varsExtract, varsNameBased,
      varsSections, varsTables, varsDates, varsBuild>>

OutsideMain ==
    <<varsNorm, varsCmp, varsNum, varsBlocks, varsHeaders, varsExtract, varsNameBased,
      varsSections, varsTables, varsDates, varsBuild>>

OutsideHeaders ==
    <<varsNorm, varsCmp, varsNum, varsBlocks, varsMain, varsExtract, varsNameBased,
      varsSections, varsTables, varsDates, varsBuild>>

OutsideExtract ==
    <<varsNorm, varsCmp, varsNum, varsBlocks, varsMain, varsHeaders, varsNameBased,
      varsSections, varsTables, varsDates, varsBuild>>

OutsideNameBased ==
    <<varsNorm, varsCmp, varsNum, varsBlocks, varsMain, varsHeaders, varsExtract, varsSections,
      varsTables, varsDates, varsBuild>>

OutsideSections ==
    <<varsNorm, varsCmp, varsNum, varsBlocks, varsMain, varsHeaders, varsExtract,
      varsNameBased, varsTables, varsDates, varsBuild>>

OutsideTables ==
    <<varsNorm, varsCmp, varsNum, varsBlocks, varsMain, varsHeaders, varsExtract,
      varsNameBased, varsSections, varsDates, varsBuild>>

OutsideDates ==
    <<varsNorm, varsCmp, varsNum, varsBlocks, varsMain, varsHeaders, varsExtract,
      varsNameBased, varsSections, varsTables, varsBuild>>

OutsideBuild ==
    <<varsNorm, varsCmp, varsNum, varsBlocks, varsMain, varsHeaders, varsExtract,
      varsNameBased, varsSections, varsTables, varsDates>>

(***************************************************************************)
(* Strings                                                                 *)
(***************************************************************************)
WS == {" ", "\t"}

Digits == {"0", "1", "2", "3", "4", "5", "6", "7", "8", "9"}

LowerSeq ==
    <<"a", "b", "c", "d", "e", "f", "g", "h", "i", "j", "k", "l", "m",
      "n", "o", "p", "q", "r", "s", "t", "u", "v", "w", "x", "y", "z">>

UpperSeq ==
    <<"A", "B", "C", "D", "E", "F", "G", "H", "I", "J", "K", "L", "M",
      "N", "O", "P", "Q", "R", "S", "T", "U", "V", "W", "X", "Y", "Z">>

LowerLetters == {LowerSeq[i] : i \in 1..26}

UpperLetters == {UpperSeq[i] : i \in 1..26}

\* the position of character c in the sequence q of distinct characters
PosIn(q, c) == CHOOSE i \in 1..Len(q) : q[i] = c

\* str.lower() on one character
LowerChar(c) == IF c \in UpperLetters THEN LowerSeq[PosIn(UpperSeq, c)] ELSE c

Lower(s) == [i \in 1..Len(s) |-> LowerChar(s[i])]

\* the strings over alphabet A of length at most n
RECURSIVE StringsUpTo(_, _)
StringsUpTo(A, n) ==
    IF n = 0 THEN {<<>>}
    ELSE LET shorter == StringsUpTo(A, n - 1)
         IN  shorter \cup {Append(s, c) : s \in {t \in shorter : Len(t) = n - 1}, c \in A}

RECURSIVE LStrip(_)
LStrip(s) == IF s # <<>> /\ Head(s) \in WS THEN LStrip(Tail(s)) ELSE s

RECURSIVE RStrip(_)
RStrip(s) ==
    IF s # <<>> /\ s[Len(s)] \in WS THEN RStrip(SubSeq(s, 1, Len(s) - 1)) ELSE s

\* str.strip()
Strip(s) == RStrip(LStrip(s))

\* str.replace(old, new) for a single character old and a string new
RECURSIVE ReplaceChar(_, _, _)
ReplaceChar(s, old, new) ==
    IF s = <<>> THEN <<>>
    ELSE (IF Head(s) = old THEN new ELSE <<Head(s)>>) \o ReplaceChar(Tail(s), old, new)

\* the characters of s that are in the set keep, in order
RECURSIVE KeepChars(_, _)
KeepChars(s, keep) ==
    IF s = <<>> THEN <<>>
    ELSE (IF Head(s) \in keep THEN <<Head(s)>> ELSE <<>>) \o KeepChars(Tail(s), keep)

\* a plausible slip: s.replace("  ", " "), one left-to-right pass over pairs of blanks
RECURSIVE CollapseWs_PairsOnce(_)
CollapseWs_PairsOnce(s) ==
    IF Len(s) < 2 THEN s
    ELSE IF s[1] \in WS /\ s[2] \in WS
         THEN <<" ">> \o CollapseWs_PairsOnce(SubSeq(s, 3, Len(s)))
         ELSE <<s[1]>> \o CollapseWs_PairsOnce(Tail(s))

\* re.sub(r"\s+", " ", s)
RECURSIVE CollapseWs(_)
CollapseWs(s) ==
    IF s = <<>> THEN <<>>
    ELSE IF Head(s) \in WS
         THEN <<" ">> \o CollapseWs(LStrip(s))
         ELSE <<Head(s)>> \o CollapseWs(Tail(s))

(***************************************************************************)
(* Numbers.  A natural number too wide for the checker's integers is a     *)
(* sequence of limbs in base 1000, least significant first, without        *)
(* leading zero limbs (zero is the empty sequence).                        *)
(***************************************************************************)
RECURSIVE BigTrim(_)
BigTrim(x) ==
    IF x # <<>> /\ x[Len(x)] = 0 THEN BigTrim(SubSeq(x, 1, Len(x) - 1)) ELSE x

RECURSIVE BigFromInt(_)
BigFromInt(n) == IF n = 0 THEN <<>> ELSE <<n % 1000>> \o BigFromInt(n \div 1000)

\* x * f + carry, for a small factor f
RECURSIVE BigMulAdd(_, _, _)
BigMulAdd(x, f, carry) ==
    IF x = <<>> THEN BigFromInt(carry)
    ELSE LET t == Head(x) * f + carry
         IN  <<t % 1000>> \o BigMulAdd(Tail(x), f, t \div 1000)

BigMulSmall(x, f) == BigTrim(BigMulAdd(x, f, 0))

BigDouble(x) == BigMulSmall(x, 2)

BigSucc(x) == BigTrim(BigMulAdd(x, 1, 1))

\* quotient and remainder of x by a small divisor, from the top limb down
RECURSIVE BigDivLoop(_, _, _, _)
BigDivLoop(x, dv, i, rem) ==
    IF i = 0 THEN [q |-> <<>>, r |-> rem]
    ELSE LET t    == rem * 1000 + x[i]
             rest == BigDivLoop(x, dv, i - 1, t % dv)
         IN  [q |-> Append(rest.q, t \div dv), r |-> rest.r]

BigDivMod(x, dv) ==
    LET res == BigDivLoop(x, dv, Len(x), 0)
    IN  [q |-> BigTrim(res.q), r |-> res.r]

BigIsOdd(x) == x # <<>> /\ x[1] % 2 = 1

\* -1, 0, 1 as x < y, x = y, x > y
RECURSIVE BigCmpFrom(_, _, _)
BigCmpFrom(x, y, i) ==
    IF i = 0 THEN 0
    ELSE IF x[i] < y[i] THEN -1
    ELSE IF x[i] > y[i] THEN 1
    ELSE BigCmpFrom(x, y, i - 1)

BigCmp(x, y) ==
    IF Len(x) < Len(y) THEN -1
    ELSE IF Len(x) > Len(y) THEN 1
    ELSE BigCmpFrom(x, y, Len(x))

\* x - y for x >= y
RECURSIVE BigSubLoop(_, _, _)
BigSubLoop(x, y, borrow) ==
    IF x = <<>> THEN <<>>
    ELSE LET yl == IF y = <<>> THEN 0 ELSE Head(y)
             t  == Head(x) - yl - borrow
         IN  <<(t + 1000) % 1000>>
               \o BigSubLoop(Tail(x), IF y = <<>> THEN <<>> ELSE Tail(y),
                             IF t < 0 THEN 1 ELSE 0)

BigSub(x, y) == BigTrim(BigSubLoop(x, y, 0))

RECURSIVE BigAddLoop(_, _, _)
BigAddLoop(x, y, carry) ==
    IF x = <<>> /\ y = <<>> THEN BigFromInt(carry)
    ELSE LET xl == IF x = <<>> THEN 0 ELSE Head(x)
             yl == IF y = <<>> THEN 0 ELSE Head(y)
             t  == xl + yl + carry
         IN  <<t % 1000>>
               \o BigAddLoop(IF x = <<>> THEN <<>> ELSE Tail(x),
                             IF y = <<>> THEN <<>> ELSE Tail(y), t \div 1000)

BigAdd(x, y) == BigTrim(BigAddLoop(x, y, 0))

\* x * 2^n
RECURSIVE BigShiftLeft(_, _)
BigShiftLeft(x, n) ==
    IF n = 0 THEN x
    ELSE IF n >= 10 THEN BigShiftLeft(BigMulSmall(x, 1024), n - 10)
    ELSE BigShiftLeft(BigDouble(x), n - 1)

(***************************************************************************)
(* Python float: an IEEE 754 binary64 value.  A finite value is            *)
(* (-1)^neg * m * 2^(-k) with m = 0 or 2^52 <= m < 2^53 (the values here   *)
(* are far from the subnormal and overflow ranges).                        *)
(***************************************************************************)
Two52 == <<496, 370, 627, 599, 503, 4>>       \* 2^52 = 4 503 599 627 370 496

Two53 == <<992, 740, 254, 199, 7, 9>>         \* 2^53 = 9 007 199 254 740 992

DblNaN == [nan |-> TRUE, neg |-> FALSE, m |-> <<>>, k |-> 0]

DblZero == [nan |-> FALSE, neg |-> FALSE, m |-> <<>>, k |-> 0]

\* round half to even of (q + rem/dv), then renormalise if the mantissa reached 2^53
DblRound(neg, q, k, roundUp) ==
    LET q1 == IF roundUp THEN BigSucc(q) ELSE q
    IN  IF BigCmp(q1, Two53) = 0
        THEN [nan |-> FALSE, neg |-> neg, m |-> Two52, k |-> k - 1]
        ELSE [nan |-> FALSE, neg |-> neg, m |-> q1, k |-> k]

\* the binary64 nearest to x * 2^(-k) / dv, for x / dv < 2^53
RECURSIVE DblOfRatio(_, _, _, _)
DblOfRatio(neg, x, k, dv) ==
    IF x = <<>> THEN DblZero
    ELSE IF BigCmp(BigMulSmall(x, 1024), BigMulSmall(Two52, dv)) < 0
    THEN DblOfRatio(neg, BigMulSmall(x, 1024), k + 10, dv)
    ELSE IF BigCmp(x, BigMulSmall(Two52, dv)) < 0
    THEN DblOfRatio(neg, BigDouble(x), k + 1, dv)
    ELSE LET qr == BigDivMod(x, dv)
             up == \/ 2 * qr.r > dv
                   \/ 2 * qr.r = dv /\ BigIsOdd(qr.q)
         IN  DblRound(neg, qr.q, k, up)

\* the binary64 nearest to x * 2^(-k), for any natural x: halve while x >= 2^53,
\* keeping the last bit shifted out (guard) and whether any earlier one was set
RECURSIVE DblOfDyadic(_, _, _, _, _)
DblOfDyadic(neg, x, k, guard, sticky) ==
    IF x = <<>> /\ ~guard /\ ~sticky THEN DblZero
    ELSE IF BigCmp(x, Two53) >= 0
    THEN DblOfDyadic(neg, BigDivMod(x, 2).q, k - 1, BigIsOdd(x), sticky \/ guard)
    ELSE IF BigCmp(BigMulSmall(x, 1024), Two52) < 0 /\ ~guard /\ ~sticky
    THEN DblOfDyadic(neg, BigMulSmall(x, 1024), k + 10, FALSE, FALSE)
    ELSE IF BigCmp(x, Two52) < 0 /\ ~guard /\ ~sticky
    THEN DblOfDyadic(neg, BigDouble(x), k + 1, FALSE, FALSE)
    ELSE DblRound(neg, x, k, guard /\ (sticky \/ BigIsOdd(x)))

\* -1, 0, 1 as |a| < |b|, |a| = |b|, |a| > |b|
DblCmpAbs(a, b) ==
    LET kk == IF a.k > b.k THEN a.k ELSE b.k
    IN  BigCmp(BigShiftLeft(a.m, kk - a.k), BigShiftLeft(b.m, kk - b.k))

\* abs(a - b) in binary64 arithmetic
DblAbsDiff(a, b) ==
    IF a.nan \/ b.nan THEN DblNaN
    ELSE LET kk == IF a.k > b.k THEN a.k ELSE b.k
             xa == BigShiftLeft(a.m, kk - a.k)
             xb == BigShiftLeft(b.m, kk - b.k)
             mag == IF a.neg # b.neg THEN BigAdd(xa, xb)
                    ELSE IF BigCmp(xa, xb) >= 0 THEN BigSub(xa, xb)
                    ELSE BigSub(xb, xa)
         IN  DblOfDyadic(FALSE, mag, kk, FALSE, FALSE)

\* a / 100.0 in binary64 arithmetic
DblDiv100(a) == IF a.nan THEN DblNaN ELSE DblOfRatio(a.neg, a.m, a.k, 100)

\* a * 100 in binary64 arithmetic
DblMul100(a) ==
    IF a.nan THEN DblNaN ELSE DblOfDyadic(a.neg, BigMulSmall(a.m, 100), a.k, FALSE, FALSE)

\* floor(x / 2^n)
RECURSIVE BigShiftRight(_, _)
BigShiftRight(x, n) ==
    IF n = 0 \/ x = <<>> THEN x
    ELSE IF n >= 10 THEN BigShiftRight(BigDivMod(x, 1024).q, n - 10)
    ELSE BigShiftRight(BigDivMod(x, 2).q, n - 1)

\* math.trunc(a), int(a): the integer part of a finite float, as sign and magnitude
DblTrunc(a) ==
    LET mag == IF a.k <= 0 THEN BigShiftLeft(a.m, 0 - a.k) ELSE BigShiftRight(a.m, a.k)
    IN  [neg |-> a.neg /\ mag # <<>>, mag |-> mag]

\* a == b on floats (NaN equals nothing)
DblEq(a, b) == ~a.nan /\ ~b.nan /\ a = b

(***************************************************************************)
(* Numbers.  None, where the code has it for a row or a column, is -1.     *)
(***************************************************************************)
None == -1

Min(a, b) == IF a < b THEN a ELSE b

Max(a, b) == IF a > b THEN a ELSE b

\* the least and the greatest member of a set of numbers that is not empty
Least(S) == CHOOSE x \in S : \A y \in S : x <= y

Greatest(S) == CHOOSE x \in S : \A y \in S : x >= y

\* the one member of a singleton.  A value bound as the member of {e} is
\* computed once, however often it is used.
Only(S) == CHOOSE x \in S : TRUE

(***************************************************************************)
(* Number literals                                                         *)
(***************************************************************************)
DigitVal(c) ==
    CASE c = "0" -> 0 [] c = "1" -> 1 [] c = "2" -> 2 [] c = "3" -> 3 [] c = "4" -> 4
      [] c = "5" -> 5 [] c = "6" -> 6 [] c = "7" -> 7 [] c = "8" -> 8 [] c = "9" -> 9

AllDigits(s) == \A i \in 1..Len(s) : s[i] \in Digits

RECURSIVE DigitsToInt(_)
DigitsToInt(s) ==
    IF s = <<>> THEN 0
    ELSE 10 * DigitsToInt(SubSeq(s, 1, Len(s) - 1)) + DigitVal(s[Len(s)])

RECURSIVE Pow10(_)
Pow10(d) == IF d = 0 THEN 1 ELSE 10 * Pow10(d - 1)

\* the first position of character c in s, or 0
IndexOf(s, c) ==
    IF \E i \in 1..Len(s) : s[i] = c
    THEN CHOOSE i \in 1..Len(s) : s[i] = c /\ \A j \in 1..(i - 1) : s[j] # c
    ELSE 0

DropSign(t) == IF t # <<>> /\ t[1] \in {"-", "+"} THEN Tail(t) ELSE t

EndsWithPct(t) == t # <<>> /\ t[Len(t)] = "%"

DropLast(t) == SubSeq(t, 1, Len(t) - 1)

IntPart(u) == IF IndexOf(u, ".") = 0 THEN u ELSE SubSeq(u, 1, IndexOf(u, ".") - 1)

FracPart(u) == IF IndexOf(u, ".") = 0 THEN <<>> ELSE SubSeq(u, IndexOf(u, ".") + 1, Len(u))

\* the decimal literals float() and Decimal() both accept, among the strings made
\* of digits, signs, points and blanks: [ws] [sign] (digits [. [digits]] | . digits) [ws]
IsDecimalLiteral(s) ==
    LET u == DropSign(Strip(s))
    IN  /\ AllDigits(IntPart(u))
        /\ AllDigits(FracPart(u))
        /\ Len(IntPart(u)) + Len(FracPart(u)) > 0

IsNanLiteral(s) == Lower(DropSign(Strip(s))) = <<"n", "a", "n">>

LiteralNeg(s) == Strip(s) # <<>> /\ Strip(s)[1] = "-"

LiteralDigits(s) == DigitsToInt(IntPart(DropSign(Strip(s))) \o FracPart(DropSign(Strip(s))))

LiteralScale(s) == Len(FracPart(DropSign(Strip(s))))

\* float(s): ok is FALSE where Python raises ValueError.  The literals of this
\* model have at most 9 digits, at most 6 of them after the point.
PyFloat(s) ==
    IF IsNanLiteral(s) THEN [ok |-> TRUE, val |-> DblNaN]
    ELSE IF IsDecimalLiteral(s)
    THEN [ok |-> TRUE,
          val |-> DblOfRatio(LiteralNeg(s), BigFromInt(LiteralDigits(s)), 0,
                             Pow10(LiteralScale(s)))]
    ELSE [ok |-> FALSE, val |-> DblNaN]

\* Decimal(s): the exact value (-1)^neg * n / 10^d; ok is FALSE where Python raises
PyDecimal(s) ==
    IF IsDecimalLiteral(s)
    THEN [ok |-> TRUE, neg |-> LiteralNeg(s) /\ LiteralDigits(s) # 0,
          n |-> LiteralDigits(s), d |-> LiteralScale(s)]
    ELSE [ok |-> FALSE, neg |-> FALSE, n |-> 0, d |-> 0]

\* a - b on exact decimals, as a signed integer count of 10^-max(a.d, b.d)
DecDiffUnits(a, b) ==
    LET dd == IF a.d > b.d THEN a.d ELSE b.d
        ua == (IF a.neg THEN -1 ELSE 1) * a.n * Pow10(dd - a.d)
        ub == (IF b.neg THEN -1 ELSE 1) * b.n * Pow10(dd - b.d)
    IN  ua - ub

Abs(i) == IF i < 0 THEN -i ELSE i

\* abs(a - b) <= t on exact decimals
DecAbsDiffLeq(a, b, t) ==
    LET dd == IF a.d > b.d THEN a.d ELSE b.d
        d3 == IF t.d > dd THEN t.d ELSE dd
    IN  Abs(DecDiffUnits(a, b)) * Pow10(d3 - dd) <= t.n * Pow10(d3 - t.d)

(***************************************************************************)
(* rateBuildUp/rbuSpace.py: predicates on cells                            *)
(***************************************************************************)
\* is_blank (a cell is a string here, never None)
is_blank(s) == Strip(s) = <<>>

\* \d+(?:\.\d+)?
IsPlainNumber(b) ==
    IF IndexOf(b, ".") = 0 THEN b # <<>> /\ AllDigits(b)
    ELSE /\ IntPart(b) # <<>> /\ AllDigits(IntPart(b))
         /\ FracPart(b) # <<>> /\ AllDigits(FracPart(b))

\* (?:,\d{3})*
RECURSIVE IsCommaGroups(_)
IsCommaGroups(g) ==
    \/ g = <<>>
    \/ /\ Len(g) >= 4
       /\ g[1] = ","
       /\ AllDigits(SubSeq(g, 2, 4))
       /\ IsCommaGroups(SubSeq(g, 5, Len(g)))

\* \d{1,3}(?:,\d{3})*(?:\.\d+)?
IsGroupedNumber(b) ==
    LET ip == IntPart(b)
        lead == IF IndexOf(ip, ",") = 0 THEN ip ELSE SubSeq(ip, 1, IndexOf(ip, ",") - 1)
    IN  /\ Len(lead) \in 1..3
        /\ AllDigits(lead)
        /\ IsCommaGroups(SubSeq(ip, Len(lead) + 1, Len(ip)))
        /\ \/ IndexOf(b, ".") = 0
           \/ FracPart(b) # <<>> /\ AllDigits(FracPart(b))

CurrencySymbols == {"RUPEE", "$", "EURO"}

DropCurrency(t) == IF t # <<>> /\ t[1] \in CurrencySymbols THEN Tail(t) ELSE t

DropPct(t) == IF EndsWithPct(t) THEN DropLast(t) ELSE t

\* looks_numeric: re.fullmatch of the three alternatives on the stripped cell
looks_numeric(s) ==
    LET t == Strip(s)
    IN  /\ ~is_blank(s)
        /\ \/ IsGroupedNumber(DropPct(DropSign(t)))
           \/ IsPlainNumber(DropPct(DropSign(t)))
           \/ IsPlainNumber(DropSign(LStrip(DropCurrency(t))))

RemoveChars(s, drop) == KeepChars(s, {s[i] : i \in 1..Len(s)} \ drop)

\* parse_numeric: ok is FALSE where the function returns None
parse_numeric(s) ==
    IF is_blank(s) THEN [ok |-> FALSE, val |-> DblNaN]
    ELSE IF EndsWithPct(Strip(s))
    THEN LET f == PyFloat(RemoveChars(DropLast(Strip(s)), {","}))
         IN  IF f.ok THEN [ok |-> TRUE, val |-> DblDiv100(f.val)] ELSE f
    ELSE PyFloat(RemoveChars(Strip(s), CurrencySymbols \cup {","}))

\* looks_alpha: any(c.isalpha() for c in s)
looks_alpha(s) ==
    ~is_blank(s) /\ \E i \in 1..Len(s) : s[i] \in LowerLetters \cup UpperLetters

(***************************************************************************)
(* Label normalisation                                                     *)
(***************************************************************************)
\* compareRateBuildUp.normalize_text
normalize_text(s) ==
    LET s1 == Strip(s)
        s2 == ReplaceChar(ReplaceChar(s1, "ENDASH", <<"-">>), "EMDASH", <<"-">>)
    IN  CollapseWs(s2)

\* codeWithRow.normalize
normalize(text) == Lower(Strip(text))

\* DataValidationRates.clean_text
clean_text(text) == IF text = <<>> THEN <<>> ELSE Strip(ReplaceChar(text, "BOM", <<>>))

\* DataValidationRates.normalize_header
normalize_header(h) == KeepChars(Lower(clean_text(h)), LowerLetters \cup Digits)

(***************************************************************************)
(* Ordering of strings and tuples, as Python compares them                 *)
(***************************************************************************)
\* ord(c)
CharCode(c) ==
    CASE c \in UpperLetters -> 64 + PosIn(UpperSeq, c)
      [] c \in LowerLetters -> 96 + PosIn(LowerSeq, c)
      [] c \in Digits -> 48 + DigitVal(c)
      [] c = "\t" -> 9 [] c = " " -> 32 [] c = "$" -> 36 [] c = "%" -> 37
      [] c = "+" -> 43 [] c = "," -> 44 [] c = "-" -> 45 [] c = "." -> 46
      [] c = "/" -> 47 [] c = "_" -> 95 [] c = "|" -> 124
      [] c = "ENDASH" -> 8211 [] c = "EMDASH" -> 8212 [] c = "EURO" -> 8364
      [] c = "RUPEE" -> 8377 [] c = "BOM" -> 65279

\* a < b on strings
RECURSIVE StrLess(_, _)
StrLess(a, b) ==
    IF b = <<>> THEN FALSE
    ELSE IF a = <<>> THEN TRUE
    ELSE IF Head(a) # Head(b) THEN CharCode(Head(a)) < CharCode(Head(b))
    ELSE StrLess(Tail(a), Tail(b))

\* a < b on tuples of strings
RECURSIVE TupleLess(_, _)
TupleLess(a, b) ==
    IF b = <<>> THEN FALSE
    ELSE IF a = <<>> THEN TRUE
    ELSE IF Head(a) # Head(b) THEN StrLess(Head(a), Head(b))
    ELSE TupleLess(Tail(a), Tail(b))

\* sorted(S) for a set S of tuples of strings
RECURSIVE SortedTuples(_)
SortedTuples(S) ==
    IF S = {} THEN <<>>
    ELSE LET least == CHOOSE x \in S : \A y \in S \ {x} : TupleLess(x, y)
         IN  <<least>> \o SortedTuples(S \ {least})

\* sorted(S) for a set S of strings
RECURSIVE SortedStrings(_)
SortedStrings(S) ==
    IF S = {} THEN <<>>
    ELSE LET least == CHOOSE x \in S : \A y \in S \ {x} : StrLess(x, y)
         IN  <<least>> \o SortedStrings(S \ {least})

SeqToSet(q) == {q[i] : i \in 1..Len(q)}

(***************************************************************************)
(* Python dicts are functions; a missing key is a key outside the domain.  *)
(***************************************************************************)
EmptyDict == [k \in {} |-> <<>>]

\* d[k] = v
DictSet(d, k, v) == [x \in DOMAIN d \cup {k} |-> IF x = k THEN v ELSE d[x]]

\* d.setdefault(k, v)
DictSetDefault(d, k, v) == IF k \in DOMAIN d THEN d ELSE DictSet(d, k, v)

(***************************************************************************)
(* DataValidation_RBU/compareRateBuildUp.py: compare_records               *)
(***************************************************************************)
NaWords == {<<"n", "a">>, <<"n", "/", "a">>, <<"n", "u", "l", "l">>}

\* the text is_floaty and to_float hand to float()
FloatyBody(val) ==
    LET s == RemoveChars(Strip(val), {",", "$"})
    IN  IF EndsWithPct(s) THEN DropLast(s) ELSE s

is_floaty(val) ==
    /\ Strip(val) # <<>>
    /\ Lower(Strip(val)) \notin NaWords
    /\ PyFloat(FloatyBody(val)).ok

to_float(val) ==
    IF Strip(val) = <<>> \/ Lower(Strip(val)) \in NaWords THEN DblNaN
    ELSE IF PyFloat(FloatyBody(val)).ok THEN PyFloat(FloatyBody(val)).val
    ELSE DblNaN

\* the key of a record in compare_records.index
RecordKey(r) ==
    <<normalize_text(r.section), normalize_text(r.group), normalize_text(r.subgroup),
      normalize_text(r.period), normalize_text(r.channel)>>

\* compare_records.index: key -> (value, col_letter), a later record overwriting
RECURSIVE index(_)
index(recs) ==
    IF recs = <<>> THEN EmptyDict
    ELSE LET r == recs[Len(recs)]
         IN  DictSet(index(DropLast(recs)), RecordKey(r), <<r.value, r.col_letter>>)

\* sorted(set(idx1.keys()) & set(idx2.keys()))
shared_keys(idx1, idx2) == SortedTuples(DOMAIN idx1 \cap DOMAIN idx2)

\* diff > tolerance, for a difference and a tolerance that are not negative
ExceedsTolerance(diff, tolerance) == DblCmpAbs(diff, tolerance) > 0

\* a variant that takes the numeric branch only when both values parse
ClassifyValues_BothParse(v1, v2, tolerance) ==
    IF is_floaty(v1) /\ is_floaty(v2)
    THEN IF ExceedsTolerance(DblAbsDiff(to_float(v1), to_float(v2)), tolerance)
         THEN [kind |-> "numeric", diff |-> DblAbsDiff(to_float(v1), to_float(v2))]
         ELSE [kind |-> "match", diff |-> <<>>]
    ELSE IF Lower(normalize_text(v1)) # Lower(normalize_text(v2))
         THEN [kind |-> "text", diff |-> <<>>]
         ELSE [kind |-> "match", diff |-> <<>>]

\* the body of the loop over shared keys: how one pair of values is classified.
\* diff is "NaN", "" or the float the code renders with the format .6g.
ClassifyValues(v1, v2, tolerance) ==
    IF is_floaty(v1) \/ is_floaty(v2)
    THEN IF ~to_float(v1).nan /\ ~to_float(v2).nan
         THEN IF ExceedsTolerance(DblAbsDiff(to_float(v1), to_float(v2)), tolerance)
              THEN [kind |-> "numeric", diff |-> DblAbsDiff(to_float(v1), to_float(v2))]
              ELSE [kind |-> "match", diff |-> <<>>]
         ELSE [kind |-> "numeric", diff |-> <<"N", "a", "N">>]
    ELSE IF Lower(normalize_text(v1)) # Lower(normalize_text(v2))
         THEN [kind |-> "text", diff |-> <<>>]
         ELSE [kind |-> "match", diff |-> <<>>]

MismatchOf(k, e1, e2, c) ==
    [section |-> k[1], group |-> k[2], subgroup |-> k[3], period |-> k[4],
     channel |-> k[5], col1 |-> e1[2], col2 |-> e2[2], v1 |-> e1[1], v2 |-> e2[1],
     diff |-> c.diff, kind |-> c.kind]

\* a variant of the loop that counts a mismatching key as a match as well
RECURSIVE CompareLoop_MismatchAlsoCounted(_, _, _, _, _)
CompareLoop_MismatchAlsoCounted(keys, i, idx1, idx2, tolerance) ==
    IF i > Len(keys) THEN [mismatches |-> <<>>, matches |-> 0]
    ELSE LET k    == keys[i]
             c    == ClassifyValues(idx1[k][1], idx2[k][1], tolerance)
             rest == CompareLoop_MismatchAlsoCounted(keys, i + 1, idx1, idx2, tolerance)
         IN  IF c.kind = "match"
             THEN [mismatches |-> rest.mismatches, matches |-> rest.matches + 1]
             ELSE [mismatches |-> <<MismatchOf(k, idx1[k], idx2[k], c)>> \o rest.mismatches,
                   matches |-> rest.matches + 1]

\* the loop over shared keys, from key number i on
RECURSIVE CompareLoop(_, _, _, _, _)
CompareLoop(keys, i, idx1, idx2, tolerance) ==
    IF i > Len(keys) THEN [mismatches |-> <<>>, matches |-> 0]
    ELSE LET k    == keys[i]
             c    == ClassifyValues(idx1[k][1], idx2[k][1], tolerance)
             rest == CompareLoop(keys, i + 1, idx1, idx2, tolerance)
         IN  IF c.kind = "match"
             THEN [mismatches |-> rest.mismatches, matches |-> rest.matches + 1]
             ELSE [mismatches |-> <<MismatchOf(k, idx1[k], idx2[k], c)>> \o rest.mismatches,
                   matches |-> rest.matches]

\* compare_records(recs1, recs2, tolerance), with its locals idx1 and idx2
compare_records(recs1, recs2, tolerance) ==
    LET idx1 == index(recs1)
        idx2 == index(recs2)
        res  == CompareLoop(shared_keys(idx1, idx2), 1, idx1, idx2, tolerance)
    IN  [idx1 |-> idx1, idx2 |-> idx2,
         mismatches |-> res.mismatches, matches |-> res.matches]

(***************************************************************************)
(* DataValidationRAOutput.py: values_equal                                 *)
(***************************************************************************)
\* to_decimal: ok is FALSE where the function returns None
to_decimal(x) == PyDecimal(Strip(RemoveChars(x, {"$", ","})))

OneHundredth == [ok |-> TRUE, neg |-> FALSE, n |-> 1, d |-> 2]     \* Decimal("0.01")

values_equal(v1, v2) ==
    IF to_decimal(v1).ok /\ to_decimal(v2).ok
    THEN DecAbsDiffLeq(to_decimal(v1), to_decimal(v2), OneHundredth)
    ELSE v1 = v2

(***************************************************************************)
(* rateBuildUp/rbuSpace.py: key_tuple, compare_records, report summary     *)
(***************************************************************************)
\* key_tuple: the fields as they are
key_tuple(rec) ==
    <<rec.section, rec.group_path, rec.channel, rec.metric, rec.date_window>>

\* None, as the missing value of a source
NoValue == [ok |-> FALSE, val |-> DblNaN]

\* the aggregation loop of compare_records over the records in list order
RECURSIVE Aggregate(_)
Aggregate(all_records) ==
    IF all_records = <<>> THEN EmptyDict
    ELSE LET rec  == all_records[Len(all_records)]
             agg  == Aggregate(DropLast(all_records))
             k    == key_tuple(rec)
             old  == IF k \in DOMAIN agg THEN agg[k]
                     ELSE [values |-> EmptyDict, texts |-> EmptyDict,
                           meta |-> [section |-> rec.section,
                                     group_path |-> rec.group_path,
                                     channel |-> rec.channel,
                                     metric |-> rec.metric,
                                     date_window |-> rec.date_window]]
         IN  DictSet(agg, k,
                     [old EXCEPT !.values = DictSet(old.values, rec.source, rec.value_num),
                                 !.texts  = DictSet(old.texts, rec.source, rec.value_text)])

\* v["values"].setdefault(src, None); v["texts"].setdefault(src, "") for every source
RECURSIVE FillSources(_, _)
FillSources(v, sources) ==
    IF sources = <<>> THEN v
    ELSE FillSources([v EXCEPT !.values = DictSetDefault(v.values, Head(sources), NoValue),
                               !.texts  = DictSetDefault(v.texts, Head(sources), <<>>)],
                     Tail(sources))

\* rbuSpace.compare_records(all_records, sources_in_order)
aggregate_records(all_records, sources_in_order) ==
    LET agg == Aggregate(all_records)
    IN  [k \in DOMAIN agg |-> FillSources(agg[k], sources_in_order)]

\* generate_html_report: the keys whose value in some later source differs from
\* the baseline's, both present
changed_keys(agg, sources_in_order) ==
    Cardinality({k \in DOMAIN agg :
        \E i \in 2..Len(sources_in_order) :
            /\ agg[k].values[sources_in_order[1]].ok
            /\ agg[k].values[sources_in_order[i]].ok
            /\ ~DblEq(agg[k].values[sources_in_order[i]].val,
                      agg[k].values[sources_in_order[1]].val)})

(***************************************************************************)
(* rateBuildUp/codeWithRow.py: build_row_map, compare_key_based            *)
(* Column indexes are Python's, counted from 0.                            *)
(***************************************************************************)
\* header_index_map: normalize(h) -> index, a later header overwriting
RECURSIVE header_index_map(_)
header_index_map(headers) ==
    IF headers = <<>> THEN EmptyDict
    ELSE DictSet(header_index_map(DropLast(headers)),
                 normalize(headers[Len(headers)]), Len(headers) - 1)

\* r[i] if i < len(r) else ""
CellAt(r, i) == IF i < Len(r) THEN r[i + 1] ELSE <<>>

KEY_COLUMNS ==
    <<<<"F", "o", "r", "m", "u", "l", "a", "r", "y">>, <<"N", "D", "C", "1", "1">>>>

\* the key of a row; key_cols are present among the headers
RowKey(r, headers, key_cols) ==
    [j \in 1..Len(key_cols) |->
        Strip(CellAt(r, header_index_map(headers)[normalize(key_cols[j])]))]

\* build_row_map where a later row with the same key replaces the earlier one
RECURSIVE build_row_map_Overwrite(_, _, _)
build_row_map_Overwrite(rows, headers, key_cols) ==
    IF rows = <<>> THEN [row_map |-> EmptyDict, duplicates |-> <<>>]
    ELSE LET r    == rows[Len(rows)]
             prev == build_row_map_Overwrite(DropLast(rows), headers, key_cols)
             key  == RowKey(r, headers, key_cols)
         IN  IF key \in DOMAIN prev.row_map
             THEN [row_map |-> DictSet(prev.row_map, key, r),
                   duplicates |-> Append(prev.duplicates, key)]
             ELSE [row_map |-> DictSet(prev.row_map, key, r),
                   duplicates |-> prev.duplicates]

\* build_row_map(rows, headers, key_cols) -> (row_map, duplicates)
RECURSIVE build_row_map(_, _, _)
build_row_map(rows, headers, key_cols) ==
    IF rows = <<>> THEN [row_map |-> EmptyDict, duplicates |-> <<>>]
    ELSE LET r    == rows[Len(rows)]
             prev == build_row_map(DropLast(rows), headers, key_cols)
             key  == RowKey(r, headers, key_cols)
         IN  IF key \in DOMAIN prev.row_map
             THEN [row_map |-> prev.row_map,
                   duplicates |-> Append(prev.duplicates, key)]
             ELSE [row_map |-> DictSet(prev.row_map, key, r),
                   duplicates |-> prev.duplicates]

\* [h for h in headers1 if normalize(h) in hmap2]
RECURSIVE CommonHeaders(_, _)
CommonHeaders(headers1, hmap2) ==
    IF headers1 = <<>> THEN <<>>
    ELSE (IF normalize(Head(headers1)) \in DOMAIN hmap2 THEN <<Head(headers1)>> ELSE <<>>)
            \o CommonHeaders(Tail(headers1), hmap2)

\* the cells compared for one common key, header by header
RECURSIVE CompareRowCells(_, _, _, _, _, _)
CompareRowCells(key, r1, r2, hs, hmap1, hmap2) ==
    IF hs = <<>> THEN [matches |-> 0, details |-> <<>>]
    ELSE LET h    == Head(hs)
             v1   == CellAt(r1, hmap1[normalize(h)])
             v2   == CellAt(r2, hmap2[normalize(h)])
             rest == CompareRowCells(key, r1, r2, Tail(hs), hmap1, hmap2)
         IN  IF v1 = v2
             THEN [matches |-> rest.matches + 1, details |-> rest.details]
             ELSE [matches |-> rest.matches,
                   details |-> <<<<key, h, v1, v2>>>> \o rest.details]

RECURSIVE CompareCommonKeys(_, _, _, _, _, _)
CompareCommonKeys(keys, map1, map2, hs, hmap1, hmap2) ==
    IF keys = <<>> THEN [matches |-> 0, details |-> <<>>]
    ELSE LET one  == CompareRowCells(Head(keys), map1[Head(keys)], map2[Head(keys)],
                                     hs, hmap1, hmap2)
             rest == CompareCommonKeys(Tail(keys), map1, map2, hs, hmap1, hmap2)
         IN  [matches |-> one.matches + rest.matches,
              details |-> one.details \o rest.details]

\* sorted(keys1 - keys2) with the operands exchanged
missing_in_report_Exchanged(keys1, keys2) == SortedTuples(keys2 \ keys1)

\* sorted(keys1 - keys2)
missing_in_report(keys1, keys2) == SortedTuples(keys1 \ keys2)

\* sorted(keys2 - keys1) with the subtraction left out
extra_in_report_AllOfFile2(keys1, keys2) == SortedTuples(keys2)

\* sorted(keys2 - keys1)
extra_in_report(keys1, keys2) == SortedTuples(keys2 \ keys1)

\* compare_key_based; common lists the common keys, of which the code returns the count
compare_key_based(headers1, data1, headers2, data2) ==
    LET hmap1 == header_index_map(headers1)
        hmap2 == header_index_map(headers2)
        b1    == build_row_map(data1, headers1, KEY_COLUMNS)
        b2    == build_row_map(data2, headers2, KEY_COLUMNS)
        keys1 == DOMAIN b1.row_map
        keys2 == DOMAIN b2.row_map
        common == SortedTuples(keys1 \cap keys2)
        res   == CompareCommonKeys(common, b1.row_map, b2.row_map,
                                   CommonHeaders(headers1, hmap2), hmap1, hmap2)
    IN  [matches |-> res.matches,
         mismatches |-> Len(res.details),
         missing_in_report |-> missing_in_report(keys1, keys2),
         extra_in_report |-> extra_in_report(keys1, keys2),
         duplicates_file1 |-> b1.duplicates,
         duplicates_file2 |-> b2.duplicates,
         mismatch_details |-> res.details,
         common_keys |-> Len(common),
         common |-> common,
         common_headers |-> CommonHeaders(headers1, hmap2),
         map1 |-> b1.row_map,
         map2 |-> b2.row_map]

(***************************************************************************)
(* DataValidationRates.py: build_row_map, compare_by_row_key               *)
(***************************************************************************)
\* key in h, for two texts
Contains(h, key) == \E i \in 0..(Len(h) - Len(key)) : SubSeq(h, i + 1, i + Len(key)) = key

\* find_col of DataValidationRates.build_row_map.  norm_map keeps its keys in the
\* order of their first header and holds for each the index of its last header;
\* the result is the index under the first key that contains the keyword.
find_col(headers, keyword) ==
    LET hits == {i \in 1..Len(headers) :
                    /\ Contains(normalize_header(headers[i]), normalize_header(keyword))
                    /\ \A j \in 1..(i - 1) :
                          normalize_header(headers[j]) # normalize_header(headers[i])}
    IN  IF hits = {} THEN None
        ELSE Greatest({j \in 1..Len(headers) :
                 normalize_header(headers[j]) = normalize_header(headers[Least(hits)])}) - 1

\* the row loop of DataValidationRates.build_row_map: "drug||ndc" -> row, a later
\* row overwriting
RECURSIVE RatesRowLoop(_, _, _)
RatesRowLoop(rows, drug_col, ndc_col) ==
    IF rows = <<>> THEN EmptyDict
    ELSE LET row == rows[Len(rows)]
             key == Strip(CellAt(row, drug_col) \o <<"|", "|">> \o CellAt(row, ndc_col))
             prev == RatesRowLoop(DropLast(rows), drug_col, ndc_col)
         IN  IF key # <<>> THEN DictSet(prev, key, row) ELSE prev

\* DataValidationRates.build_row_map(rows, headers, data_start_row), for headers
\* among which both key columns are found and data_start_row >= 1
rates_build_row_map(rows, headers, data_start_row) ==
    RatesRowLoop(SubSeq(rows, data_start_row, Len(rows)),
                 find_col(headers, <<"d", "r", "u", "g", "n", "a", "m", "e">>),
                 find_col(headers, <<"n", "d", "c", "1", "1">>))

\* build_index: header -> index for the non-empty headers, a later one overwriting
RECURSIVE build_index(_)
build_index(headers) ==
    IF headers = <<>> THEN EmptyDict
    ELSE IF headers[Len(headers)] # <<>>
    THEN DictSet(build_index(DropLast(headers)), headers[Len(headers)], Len(headers) - 1)
    ELSE build_index(DropLast(headers))

clean_numeric(val) == IF val = <<>> THEN <<>> ELSE Strip(RemoveChars(val, {"$", ","}))

is_number(val) == PyFloat(clean_numeric(val)).ok

\* truncate_2: math.trunc(val * 100) / 100
truncate_2(val) ==
    LET t == DblTrunc(DblMul100(val))
    IN  DblOfRatio(t.neg, t.mag, 0, 100)

\* numeric_major_mismatch; math.trunc raises on NaN and the function then returns False
numeric_major_mismatch(v1, v2) ==
    LET f1 == PyFloat(clean_numeric(v1))
        f2 == PyFloat(clean_numeric(v2))
    IN  /\ f1.ok /\ f2.ok /\ ~f1.val.nan /\ ~f2.val.nan
        /\ truncate_2(f1.val) # truncate_2(f2.val)

\* integer_part_diff
integer_part_diff(v1, v2) ==
    LET f1 == PyFloat(clean_numeric(v1))
        f2 == PyFloat(clean_numeric(v2))
    IN  /\ f1.ok /\ f2.ok /\ ~f1.val.nan /\ ~f2.val.nan
        /\ DblTrunc(f1.val) # DblTrunc(f2.val)

\* extract_group
extract_group(header) ==
    IF IndexOf(header, "_") = 0 THEN header ELSE SubSeq(header, 1, IndexOf(header, "_") - 1)

\* one cell pair of compare_by_row_key: the mismatch tuple, or none
RatesCellMismatch(key, h, r1, r2, idx1, idx2) ==
    LET v1 == Strip(CellAt(r1, idx1[h]))
        v2 == Strip(CellAt(r2, idx2[h]))
        mismatch == IF is_number(v1) /\ is_number(v2)
                    THEN numeric_major_mismatch(v1, v2)
                    ELSE v1 # v2
        highlight == /\ is_number(v1) /\ is_number(v2)
                     /\ numeric_major_mismatch(v1, v2)
                     /\ integer_part_diff(v1, v2)
    IN  IF mismatch THEN {<<key, h, v1, v2, highlight>>} ELSE {}

\* sorted(set(map2) - set(map1))
extra_file2(map1, map2) == SortedStrings(DOMAIN map2 \ DOMAIN map1)

\* compare_by_row_key.  The common keys are iterated in the order of a Python set,
\* which the language leaves open: mismatches is the set of the tuples appended.
compare_by_row_key(headers1, headers2, map1, map2) ==
    LET common_headers == SeqToSet(headers1) \cap SeqToSet(headers2)
        idx1 == build_index(headers1)
        idx2 == build_index(headers2)
        common_keys == DOMAIN map1 \cap DOMAIN map2
        mismatches == UNION {RatesCellMismatch(key, h, map1[key], map2[key], idx1, idx2) :
                                key \in common_keys, h \in common_headers}
    IN  [mismatches |-> mismatches,
         group_counter |-> [g \in {extract_group(m[2]) : m \in mismatches} |->
                               Cardinality({m \in mismatches : extract_group(m[2]) = g})],
         extra_file1 |-> SortedStrings(DOMAIN map1 \ DOMAIN map2),
         extra_file2 |-> extra_file2(map1, map2),
         common_keys |-> common_keys]

(***************************************************************************)
(* DataValidationRates.py and rates.py: build_composite_headers.  Rows are *)
(* numbered from 1, as --group-row and --detail-row number them.           *)
(***************************************************************************)
\* forward_fill: every value stripped, an empty one replaced by the last one
\* that was not
RECURSIVE forward_fill(_)
forward_fill(values) ==
    IF values = <<>> THEN <<>>
    ELSE LET before == forward_fill(DropLast(values))
             v      == Strip(values[Len(values)])
         IN  Append(before, IF v # <<>> THEN v
                            ELSE IF before = <<>> THEN <<>> ELSE before[Len(before)])

\* row += [""] * (n - len(row))
PadTo(row, n) == row \o [i \in 1..(n - Len(row)) |-> <<>>]

DigitSeq == <<"0", "1", "2", "3", "4", "5", "6", "7", "8", "9">>

\* str(n) for n >= 0
RECURSIVE IntText(_)
IntText(n) ==
    IF n < 10 THEN <<DigitSeq[n + 1]>>
    ELSE Append(IntText(n \div 10), DigitSeq[(n % 10) + 1])

\* any(x in low for x in ["year", "/", "-"])
IsYearColumn(raw) ==
    \/ Contains(Lower(raw), <<"y", "e", "a", "r">>)
    \/ Contains(Lower(raw), <<"/">>)
    \/ Contains(Lower(raw), <<"-">>)

\* the loop of build_composite_headers over the first n columns
RECURSIVE CompositeLoop(_, _, _)
CompositeLoop(g, d, n) ==
    IF n = 0 THEN [headers |-> <<>>, group_year_counter |-> EmptyDict]
    ELSE Only({
        LET group  == clean_text(g[n])
            detail == clean_text(d[n])
            raw    == IF group # <<>> /\ detail # <<>> THEN group \o <<"_">> \o detail
                      ELSE IF detail # <<>> THEN detail
                      ELSE group
            key    == normalize_header(group)
            year_no == IF key \in DOMAIN prev.group_year_counter
                       THEN prev.group_year_counter[key] + 1 ELSE 1
        IN  IF IsYearColumn(raw)
            THEN [headers |-> Append(prev.headers,
                                     group \o <<"_", "Y", "E", "A", "R", "_">> \o IntText(year_no)),
                  group_year_counter |-> DictSet(prev.group_year_counter, key, year_no)]
            ELSE [headers |-> Append(prev.headers, raw),
                  group_year_counter |-> prev.group_year_counter] :
        prev \in {CompositeLoop(g, d, n - 1)}})

\* build_composite_headers(rows, group_row, detail_row): the headers it returns
\* and the rows as it leaves them.  d is the detail row itself, not a copy, so
\* padding d pads the row of the caller's list; g is a list of its own.
build_composite_headers(rows, group_row, detail_row) ==
    LET g0       == forward_fill(rows[group_row])
        d0       == rows[detail_row]
        max_cols == Max(Len(g0), Len(d0))
    IN  [headers |-> CompositeLoop(PadTo(g0, max_cols), PadTo(d0, max_cols), max_cols).headers,
         rows    |-> [rows EXCEPT ![detail_row] = PadTo(d0, max_cols)]]

(***************************************************************************)
(* rateBuildUp/rbuSpace.py: the grid, its header tiers and section labels. *)
(* A grid is a sequence of rows of equal width; rows and columns are       *)
(* Python's, counted from 0.                                               *)
(***************************************************************************)
GridRows(grid) == Len(grid)

GridWidth(grid) == IF grid = <<>> THEN 0 ELSE Len(grid[1])

GridCell(grid, r, c) == grid[r + 1][c + 1]

\* detect_header_rows, max_scan being 12: the first row where at least
\* max(2, int(0.5 * width)) cells look numeric, else min(3, len(grid))
detect_header_rows(grid) ==
    LET width == GridWidth(grid)
        numeric_rows ==
            {i \in 0..(Min(12, GridRows(grid)) - 1) :
                /\ width > 0
                /\ Cardinality({c \in 0..(width - 1) : looks_numeric(GridCell(grid, i, c))})
                       >= Max(2, width \div 2)}
    IN  IF grid = <<>> THEN 0
        ELSE IF numeric_rows # {} THEN Least(numeric_rows)
        ELSE Min(3, GridRows(grid))

first_non_empty_header_row(grid, header_rows) ==
    LET filled == {r \in 0..(Min(header_rows, GridRows(grid)) - 1) :
                      \E c \in 0..(GridWidth(grid) - 1) : ~is_blank(GridCell(grid, r, c))}
    IN  IF filled # {} THEN Least(filled) ELSE 0

\* the number of blank cells of the column among the header rows
consecutive_blank_headers_in_col(grid, col, header_rows) ==
    Cardinality({r \in 0..(Min(header_rows, GridRows(grid)) - 1) :
                    is_blank(GridCell(grid, r, col))})

column_has_any_data(grid, col, data_start_row) ==
    \E r \in data_start_row..(GridRows(grid) - 1) : ~is_blank(GridCell(grid, r, col))

\* the inner loop of map_section_labels_by_col: the column c2 at which it breaks
RECURSIVE SectionFillStop(_, _, _, _, _)
SectionFillStop(grid, c2, header_rows, data_start_row, min_blank_sep) ==
    IF c2 >= GridWidth(grid) THEN c2
    ELSE IF \/ consecutive_blank_headers_in_col(grid, c2, header_rows) >= min_blank_sep
            \/ ~column_has_any_data(grid, c2, data_start_row)
    THEN c2
    ELSE SectionFillStop(grid, c2 + 1, header_rows, data_start_row, min_blank_sep)

\* the outer loop of map_section_labels_by_col from column c on
RECURSIVE SectionMapFrom(_, _, _, _, _, _)
SectionMapFrom(grid, section_row, header_rows, data_start_row, min_blank_sep, c) ==
    IF c >= GridWidth(grid) THEN EmptyDict
    ELSE LET cell == IF section_row < GridRows(grid) THEN GridCell(grid, section_row, c)
                     ELSE <<>>
             c2   == SectionFillStop(grid, c, header_rows, data_start_row, min_blank_sep)
             rest == SectionMapFrom(grid, section_row, header_rows, data_start_row,
                                    min_blank_sep, IF is_blank(cell) THEN c + 1 ELSE c2 + 1)
         IN  IF is_blank(cell) THEN rest
             ELSE [x \in (c..(c2 - 1)) \cup DOMAIN rest |->
                      IF x \in c..(c2 - 1) THEN Strip(cell) ELSE rest[x]]

map_section_labels_by_col(grid, section_row, header_rows, data_start_row, min_blank_sep) ==
    SectionMapFrom(grid, section_row, header_rows, data_start_row, min_blank_sep, 0)

\* the maximal runs of consecutive columns of a set, from left to right
RECURSIVE ContiguousRuns(_)
ContiguousRuns(cols) ==
    IF cols = {} THEN <<>>
    ELSE LET first == Least(cols)
             last  == Least({x \in cols : x >= first /\ x + 1 \notin cols})
         IN  <<[i \in 1..(last - first + 1) |-> first + i - 1]>>
                 \o ContiguousRuns({x \in cols : x > last})

(***************************************************************************)
(* rateBuildUp/rbuSpace.py: table blocks by the space technique            *)
(***************************************************************************)
\* first_non_empty_row_in_cols; cols is a sequence of columns
first_non_empty_row_in_cols(grid, cols, start_row) ==
    LET filled == {r \in start_row..(GridRows(grid) - 1) :
                      \E i \in 1..Len(cols) : ~is_blank(GridCell(grid, r, cols[i]))}
    IN  IF filled # {} THEN Least(filled) ELSE None

\* right_boundary_in_row_until_empty_col; cols is sorted, as every run is
right_boundary_in_row_until_empty_col(grid, row, cols, start_col) ==
    LET start  == IF \E i \in 1..Len(cols) : cols[i] = start_col
                  THEN CHOOSE i \in 1..Len(cols) : cols[i] = start_col
                  ELSE 1
        blanks == {i \in start..Len(cols) : is_blank(GridCell(grid, row, cols[i]))}
    IN  IF blanks = {} THEN cols[Len(cols)]
        ELSE IF Least(blanks) > 1 THEN cols[Least(blanks) - 1]
        ELSE cols[1]

\* the row at which the inner while loop of find_table_blocks_in_section stops
RECURSIVE BlockEnd(_, _, _, _)
BlockEnd(grid, rr, left, right) ==
    IF rr < GridRows(grid) /\ ~(\A c \in left..right : is_blank(GridCell(grid, rr, c)))
    THEN BlockEnd(grid, rr + 1, left, right)
    ELSE rr

\* one iteration of the loop of find_table_blocks_in_section scanning from row r:
\* the block it appends, top being None where the loop breaks
BlockAt(grid, section_cols, r) ==
    LET top   == first_non_empty_row_in_cols(grid, section_cols, r)
        left  == section_cols[1]
        right == IF top = None THEN None
                 ELSE right_boundary_in_row_until_empty_col(grid, top, section_cols, left)
    IN  [top |-> top,
         bottom |-> IF top = None THEN None ELSE BlockEnd(grid, top, left, right) - 1,
         left |-> left, right |-> right]

\* the loop of find_table_blocks_in_section from row r on.  An iteration that
\* leaves r where it was repeats for ever: returns is FALSE and blocks holds the
\* blocks appended before the repetition set in.
RECURSIVE BlocksFrom(_, _, _)
BlocksFrom(grid, section_cols, r) ==
    Only({IF b.top = None THEN [returns |-> TRUE, blocks |-> <<>>]
          ELSE IF b.bottom + 1 <= r THEN [returns |-> FALSE, blocks |-> <<>>]
          ELSE Only({[returns |-> rest.returns, blocks |-> <<b>> \o rest.blocks] :
                        rest \in {BlocksFrom(grid, section_cols, b.bottom + 1)}}) :
             b \in {BlockAt(grid, section_cols, r)}})

\* find_table_blocks_in_section with the scan starting on the section row itself
find_table_blocks_in_section_FromSectionRow(grid, section_cols, section_row) ==
    IF section_cols = <<>> THEN [returns |-> TRUE, blocks |-> <<>>]
    ELSE BlocksFrom(grid, section_cols, section_row)

\* find_table_blocks_in_section; section_cols is a run, sorted and not empty
find_table_blocks_in_section(grid, section_cols, section_row) ==
    IF section_cols = <<>> THEN [returns |-> TRUE, blocks |-> <<>>]
    ELSE BlocksFrom(grid, section_cols, section_row + 1)

(***************************************************************************)
(* rateBuildUp/rbuSpace.py: labels, channel, metric, date window           *)
(***************************************************************************)
\* the forward fill of one label row over the columns left..c
RECURSIVE FilledUpTo(_, _, _, _)
FilledUpTo(grid, r, left, c) ==
    IF c < left THEN <<>>
    ELSE IF ~is_blank(GridCell(grid, r, c)) THEN Strip(GridCell(grid, r, c))
    ELSE FilledUpTo(grid, r, left, c - 1)

\* forward_fill_label_rows: the rows of the block holding a letter, forward filled
RECURSIVE forward_fill_label_rows(_, _, _, _, _)
forward_fill_label_rows(grid, top, bottom, left, right) ==
    IF top > bottom THEN <<>>
    ELSE (IF \E c \in left..right : looks_alpha(GridCell(grid, top, c))
          THEN <<[i \in 1..(right - left + 1) |-> FilledUpTo(grid, top, left, left + i - 1)]>>
          ELSE <<>>)
            \o forward_fill_label_rows(grid, top + 1, bottom, left, right)

\* group_path_for_col: the non-empty labels of the column in the first three label rows
RECURSIVE GroupPathFrom(_, _, _)
GroupPathFrom(label_rows, idx, n) ==
    IF n > Min(3, Len(label_rows)) THEN <<>>
    ELSE (IF idx < Len(label_rows[n]) /\ label_rows[n][idx + 1] # <<>>
          THEN <<label_rows[n][idx + 1]>> ELSE <<>>)
            \o GroupPathFrom(label_rows, idx, n + 1)

\* a variant of group_path_for_col that always gives the three parts group, sub-group, period
group_path_for_col_ThreeParts(label_rows, left, col) ==
    LET parts == GroupPathFrom(label_rows, col - left, 1)
    IN  parts \o [i \in 1..(3 - Len(parts)) |-> <<>>]

group_path_for_col(label_rows, left, col) == GroupPathFrom(label_rows, col - left, 1)

first_data_col_in_row(grid, row, left, right) ==
    LET numeric == {c \in left..right : looks_numeric(GridCell(grid, row, c))}
    IN  IF numeric # {} THEN Least(numeric) ELSE None

\* a variant of ChannelOfRow that takes the first cell of the row in the block
ChannelOfRow_FirstCell(grid, r, left, right) == Strip(GridCell(grid, r, left))

\* the channel of a row of a block: the cell left of its first numeric cell
ChannelOfRow(grid, r, left, right) ==
    LET data_start_col == first_data_col_in_row(grid, r, left, right)
    IN  IF data_start_col # None /\ data_start_col - 1 >= left
        THEN Strip(GridCell(grid, r, data_start_col - 1))
        ELSE <<>>

\* \w of a regular expression, among the characters of this model
WordChars == LowerLetters \cup UpperLetters \cup Digits \cup {"_"}

\* \d{2}/\d{2} at position i of s
IsMonthYearAt(s, i) ==
    /\ i >= 1 /\ i + 4 <= Len(s)
    /\ s[i] \in Digits /\ s[i + 1] \in Digits
    /\ s[i + 2] = "/"
    /\ s[i + 3] \in Digits /\ s[i + 4] \in Digits

\* the first position from i on that holds no whitespace, or Len(s) + 1
RECURSIVE SkipWs(_, _)
SkipWs(s, i) == IF i <= Len(s) /\ s[i] \in WS THEN SkipWs(s, i + 1) ELSE i

\* where a match of DATE_WINDOW_RE that starts at position i ends, or 0
DateWindowEnd(s, i) ==
    LET dash   == SkipWs(s, i + 5)
        second == SkipWs(s, dash + 1)
    IN  IF /\ IsMonthYearAt(s, i)
           /\ (i = 1 \/ s[i - 1] \notin WordChars)
           /\ dash <= Len(s) /\ s[dash] \in {"-", "ENDASH"}
           /\ IsMonthYearAt(s, second)
           /\ (second + 4 = Len(s) \/ s[second + 5] \notin WordChars)
        THEN second + 4
        ELSE 0

\* parse_date_window_token: the first match with its dash made a hyphen and its
\* spaces removed, or the empty text for None
parse_date_window_token(cell) ==
    LET starts == {i \in 1..Len(cell) : DateWindowEnd(cell, i) > 0}
    IN  IF is_blank(cell) \/ starts = {} THEN <<>>
        ELSE RemoveChars(ReplaceChar(SubSeq(cell, Least(starts),
                                            DateWindowEnd(cell, Least(starts))),
                                     "ENDASH", <<"-">>),
                         {" "})

\* nearest_metric_above_col with prefer_non_date=True, from header row r upward
RECURSIVE MetricAbove(_, _, _, _)
MetricAbove(grid, r, col, no_date_window) ==
    IF r < 0 THEN <<>>
    ELSE LET cell == IF r < GridRows(grid) /\ col < GridWidth(grid)
                     THEN GridCell(grid, r, col) ELSE <<>>
         IN  IF is_blank(cell) THEN MetricAbove(grid, r - 1, col, no_date_window)
             ELSE IF ~no_date_window /\ parse_date_window_token(Strip(cell)) # <<>>
             THEN MetricAbove(grid, r - 1, col, no_date_window)
             ELSE Strip(cell)

nearest_metric_above_col(grid, header_rows, col, no_date_window) ==
    MetricAbove(grid, header_rows - 1, col, no_date_window)

\* the bottom-most header text of a column, from header row r upward
RECURSIVE HeaderTextAbove(_, _, _)
HeaderTextAbove(grid, r, col) ==
    IF r < 0 THEN <<>>
    ELSE IF ~is_blank(GridCell(grid, r, col)) THEN Strip(GridCell(grid, r, col))
    ELSE HeaderTextAbove(grid, r - 1, col)

\* the bottom-most date window token of a column, from header row r upward
RECURSIVE DateTokenAbove(_, _, _)
DateTokenAbove(grid, r, col) ==
    IF r < 0 THEN <<>>
    ELSE IF parse_date_window_token(GridCell(grid, r, col)) # <<>>
    THEN parse_date_window_token(GridCell(grid, r, col))
    ELSE DateTokenAbove(grid, r - 1, col)

\* date_window_for_col; header_rows is at most the number of rows
date_window_for_col(grid, header_rows, col, no_date_window) ==
    IF no_date_window THEN HeaderTextAbove(grid, header_rows - 1, col)
    ELSE IF DateTokenAbove(grid, header_rows - 1, col) # <<>>
    THEN DateTokenAbove(grid, header_rows - 1, col)
    ELSE HeaderTextAbove(grid, header_rows - 1, col)

(***************************************************************************)
(* rateBuildUp/rbuSpace.py: extract_space_technique                        *)
(***************************************************************************)
RECURSIVE Flatten(_)
Flatten(qs) == IF qs = <<>> THEN <<>> ELSE Head(qs) \o Flatten(Tail(qs))

\* a variant in which a column headed by a date window gives no record while
\* date window parsing is on
CellRecords_DateColumnsSkipped(grid, source_name, header_rows, no_date_window, sec_label, label_rows, b, r, c) ==
    IF /\ looks_numeric(GridCell(grid, r, c))
       /\ (no_date_window \/ DateTokenAbove(grid, header_rows - 1, c) = <<>>)
    THEN <<[source |-> source_name,
            section |-> sec_label,
            group_path |-> group_path_for_col(label_rows, b.left, c),
            channel |-> ChannelOfRow(grid, r, b.left, b.right),
            metric |-> nearest_metric_above_col(grid, header_rows, c, no_date_window),
            date_window |-> date_window_for_col(grid, header_rows, c, no_date_window),
            value_text |-> Strip(GridCell(grid, r, c)),
            value_num |-> parse_numeric(GridCell(grid, r, c)),
            row_index |-> r,
            col_index |-> c]>>
    ELSE <<>>

\* the record of one cell of a block, if the cell looks numeric
CellRecords(grid, source_name, header_rows, no_date_window, sec_label, label_rows, b, r, c) ==
    IF looks_numeric(GridCell(grid, r, c))
    THEN <<[source |-> source_name,
            section |-> sec_label,
            group_path |-> group_path_for_col(label_rows, b.left, c),
            channel |-> ChannelOfRow(grid, r, b.left, b.right),
            metric |-> nearest_metric_above_col(grid, header_rows, c, no_date_window),
            date_window |-> date_window_for_col(grid, header_rows, c, no_date_window),
            value_text |-> Strip(GridCell(grid, r, c)),
            value_num |-> parse_numeric(GridCell(grid, r, c)),
            row_index |-> r,
            col_index |-> c]>>
    ELSE <<>>

\* the records of one block, row by row and column by column
BlockRecords(grid, source_name, header_rows, no_date_window, sec_label, b) ==
    Only({Flatten([n \in 1..((b.bottom - b.top + 1) * (b.right - b.left + 1)) |->
              CellRecords(grid, source_name, header_rows, no_date_window, sec_label,
                          label_rows, b, b.top + ((n - 1) \div (b.right - b.left + 1)),
                          b.left + ((n - 1) % (b.right - b.left + 1)))]) :
             label_rows \in {forward_fill_label_rows(grid, b.top, b.bottom, b.left, b.right)}})

\* the records of the runs from run number i on; returns is FALSE where
\* find_table_blocks_in_section does not return for a run
RECURSIVE RunsRecords(_, _, _, _, _, _, _, _)
RunsRecords(grid, source_name, header_rows, section_row, no_date_window, sec_label, runs, i) ==
    IF i > Len(runs) THEN [returns |-> TRUE, records |-> <<>>]
    ELSE Only({IF ~found.returns THEN [returns |-> FALSE, records |-> <<>>]
               ELSE [returns |-> rest.returns,
                     records |->
                         Flatten([n \in 1..Len(found.blocks) |->
                             BlockRecords(grid, source_name, header_rows, no_date_window,
                                          sec_label, found.blocks[n])]) \o rest.records] :
                  found \in {find_table_blocks_in_section(grid, runs[i], section_row)},
                  rest \in {RunsRecords(grid, source_name, header_rows, section_row,
                                        no_date_window, sec_label, runs, i + 1)}})

\* the loop over the sorted section labels from label number i on
RECURSIVE LabelsRecords(_, _, _, _, _, _, _, _)
LabelsRecords(grid, source_name, header_rows, section_row, no_date_window, sec_map, section_labels, i) ==
    IF i > Len(section_labels) THEN [returns |-> TRUE, records |-> <<>>]
    ELSE Only({IF ~here.returns THEN here
               ELSE [returns |-> rest.returns, records |-> here.records \o rest.records] :
                  here \in {Only({RunsRecords(grid, source_name, header_rows, section_row,
                                              no_date_window, section_labels[i], runs, 1) :
                                     runs \in {ContiguousRuns({c \in DOMAIN sec_map :
                                                   sec_map[c] = section_labels[i]})}})},
                  rest \in {LabelsRecords(grid, source_name, header_rows, section_row,
                                          no_date_window, sec_map, section_labels, i + 1)}})

Standalone == <<"S", "t", "a", "n", "d", "a", "l", "o", "n", "e">>

\* a variant of ExtractWith whose Step 7 takes every column with data, labelled or not
ExtractWith_EveryColumnStandalone(grid, source_name, header_rows, section_row, no_date_window, sec_map) ==
    Only({IF labelled.returns /\ standalone.returns
          THEN [returns |-> TRUE, records |-> labelled.records \o standalone.records]
          ELSE [returns |-> FALSE, records |-> <<>>] :
             labelled \in
                 {Only({LabelsRecords(grid, source_name, header_rows, section_row,
                                      no_date_window, sec_map, section_labels, 1) :
                           section_labels \in
                               {SortedStrings({sec_map[c] : c \in DOMAIN sec_map})}})},
             standalone \in
                 {Only({RunsRecords(grid, source_name, header_rows, section_row,
                                    no_date_window, Standalone, runs, 1) :
                           runs \in {ContiguousRuns(
                               {c \in 0..(GridWidth(grid) - 1) :
                                   column_has_any_data(grid, c, header_rows)})}})}})

\* the body of extract_space_technique once sec_map is there
ExtractWith(grid, source_name, header_rows, section_row, no_date_window, sec_map) ==
    Only({IF labelled.returns /\ standalone.returns
          THEN [returns |-> TRUE, records |-> labelled.records \o standalone.records]
          ELSE [returns |-> FALSE, records |-> <<>>] :
             labelled \in
                 {Only({LabelsRecords(grid, source_name, header_rows, section_row,
                                      no_date_window, sec_map, section_labels, 1) :
                           section_labels \in
                               {SortedStrings({sec_map[c] : c \in DOMAIN sec_map})}})},
             standalone \in
                 {Only({RunsRecords(grid, source_name, header_rows, section_row,
                                    no_date_window, Standalone, runs, 1) :
                           runs \in {ContiguousRuns(
                               {c \in 0..(GridWidth(grid) - 1) :
                                   /\ c \notin DOMAIN sec_map
                                   /\ column_has_any_data(grid, c, header_rows)})}})}})

\* extract_space_technique, data_start_row being header_rows: returns is FALSE
\* where the call never returns, and records is then empty
extract_space_technique(grid, source_name, header_rows, section_row, min_blank_sep, no_date_window) ==
    Only({ExtractWith(grid, source_name, header_rows, section_row, no_date_window, sec_map) :
             sec_map \in {map_section_labels_by_col(grid, section_row, header_rows,
                                                    header_rows, min_blank_sep)}})

\* the runs of columns extract_space_technique goes through, in its order: those
\* of every section label, the labels sorted, then the runs of the unlabelled
\* columns that hold data
ExtractionRuns(grid, header_rows, sec_map) ==
    LET section_labels == SortedStrings({sec_map[c] : c \in DOMAIN sec_map})
    IN  Flatten([i \in 1..Len(section_labels) |->
                    ContiguousRuns({c \in DOMAIN sec_map : sec_map[c] = section_labels[i]})])
            \o ContiguousRuns({c \in 0..(GridWidth(grid) - 1) :
                                  /\ c \notin DOMAIN sec_map
                                  /\ column_has_any_data(grid, c, header_rows)})

\* the blocks of a call of extract_space_technique that returns, each with the
\* label_rows the call computes for it
ExtractionBlocks(grid, header_rows, section_row, sec_map) ==
    LET runs == ExtractionRuns(grid, header_rows, sec_map)
        blocks == Flatten([i \in 1..Len(runs) |->
                      find_table_blocks_in_section(grid, runs[i], section_row).blocks])
    IN  [n \in 1..Len(blocks) |->
            [top |-> blocks[n].top, bottom |-> blocks[n].bottom,
             left |-> blocks[n].left, right |-> blocks[n].right,
             label_rows |-> forward_fill_label_rows(grid, blocks[n].top, blocks[n].bottom,
                                                    blocks[n].left, blocks[n].right)]]

(***************************************************************************)
(* updatedHtml.py and excelCompare.py: compare_cells_name_based.  Column   *)
(* indexes and the loop's row index r are Python's, counted from 0;        *)
(* data_start_row is counted from 1.                                       *)
(***************************************************************************)
\* the loop of index_to_col_letters: the letters of n = idx + 1
RECURSIVE ColLetters(_)
ColLetters(n) ==
    IF n <= 0 THEN <<>>
    ELSE Append(ColLetters((n - 1) \div 26), UpperSeq[((n - 1) % 26) + 1])

index_to_col_letters(idx) == ColLetters(idx + 1)

\* str.upper() on one character
UpperChar(c) == IF c \in LowerLetters THEN UpperSeq[PosIn(LowerSeq, c)] ELSE c

\* the loop of col_letters_to_index over letters A..Z
RECURSIVE LettersTotal(_, _)
LettersTotal(letters, total) ==
    IF letters = <<>> THEN total
    ELSE LettersTotal(Tail(letters), total * 26 + PosIn(UpperSeq, Head(letters)))

col_letters_to_index(col_letters) ==
    LettersTotal([i \in 1..Len(Strip(col_letters)) |-> UpperChar(Strip(col_letters)[i])], 0) - 1

cell_addr(row_idx_0based, col_idx_0based, row_offset_1based, col_offset_0based) ==
    index_to_col_letters(col_idx_0based + col_offset_0based)
        \o IntText(row_idx_0based + row_offset_1based)

\* the numbers of S in ascending order
RECURSIVE Ascending(_)
Ascending(S) == IF S = {} THEN <<>> ELSE <<Least(S)>> \o Ascending(S \ {Least(S)})

\* m[h] of build_index_map: the columns whose stripped header is h, left to right
ColumnsNamed(headers, h) == Ascending({i - 1 : i \in {j \in 1..Len(headers) : Strip(headers[j]) = h}})

\* build_index_map(headers): blank headers are skipped
build_index_map(headers) ==
    LET names == {Strip(headers[i]) : i \in 1..Len(headers)} \ {<<>>}
        m     == [h \in names |-> ColumnsNamed(headers, h)]
    IN  [m |-> m, duplicates |-> SortedStrings({h \in names : Len(m[h]) > 1})]

\* row = rows[r] if r < len(rows) else [];  v = row[i] if i < len(row) else ""
CellOrEmpty(rows, r, i) ==
    IF r < Len(rows) /\ i < Len(rows[r + 1]) THEN rows[r + 1][i + 1] ELSE <<>>

\* a variant of PairedColumn that pairs by position: file 2's column is file 1's
PairedColumn_ByPosition(idxs2, k, i1) == i1

\* i2 = idxs2[k]: the k-th column of file 2 with the header's name
PairedColumn(idxs2, k, i1) == idxs2[k + 1]

\* for r in range(data_start_index, max_rows): the cells compared for one pair of columns
ColumnPairCells(rows1, rows2, header, i1, i2, data_start_index, max_rows) ==
    [j \in 1..(max_rows - data_start_index) |->
        [header |-> header, r |-> data_start_index + j - 1, i1 |-> i1, i2 |-> i2,
         v1 |-> CellOrEmpty(rows1, data_start_index + j - 1, i1),
         v2 |-> CellOrEmpty(rows2, data_start_index + j - 1, i2)]]

\* for k in range(pair_count): the cells compared under one header
HeaderPairCells(rows1, rows2, header, idxs1, idxs2, data_start_index, max_rows) ==
    Flatten([k1 \in 1..Min(Len(idxs1), Len(idxs2)) |->
                ColumnPairCells(rows1, rows2, header, idxs1[k1],
                                PairedColumn(idxs2, k1 - 1, idxs1[k1]),
                                data_start_index, max_rows)])

\* what excelCompare appends to order_differences under one header
HeaderOrderDifferences(header, idxs1, idxs2, col_offset) ==
    LET pair_count == Min(Len(idxs1), Len(idxs2))
        in_file1   == <<" ", "(", "e", "x", "t", "r", "a", " ", "i", "n", " ", "F", "i", "l", "e", "1", ")">>
        in_file2   == <<" ", "(", "e", "x", "t", "r", "a", " ", "i", "n", " ", "F", "i", "l", "e", "2", ")">>
        moved(k1)  == IF idxs1[k1] # PairedColumn(idxs2, k1 - 1, idxs1[k1])
                      THEN <<<<header, index_to_col_letters(idxs1[k1] + col_offset),
                               index_to_col_letters(PairedColumn(idxs2, k1 - 1, idxs1[k1]) + col_offset)>>>>
                      ELSE <<>>
        extra1     == [j \in 1..(Len(idxs1) - pair_count) |->
                          <<header \o in_file1,
                            index_to_col_letters(idxs1[pair_count + j] + col_offset), <<>>>>]
        extra2     == [j \in 1..(Len(idxs2) - pair_count) |->
                          <<header \o in_file2, <<>>,
                            index_to_col_letters(idxs2[pair_count + j] + col_offset)>>]
    IN  Flatten([k1 \in 1..pair_count |-> moved(k1)]) \o extra1 \o extra2

\* compare_cells_name_based of script ("updatedHtml" or "excelCompare")
compare_cells_name_based(script, rows1, rows2, headers1, headers2, data_start_row, start_col_letters) ==
    LET col_offset       == col_letters_to_index(start_col_letters)
        data_start_index == data_start_row - 1
        max_rows         == Max(Len(rows1), Len(rows2))
        map1             == build_index_map(headers1)
        map2             == build_index_map(headers2)
        headers_in_both  == SortedStrings(DOMAIN map1.m \cap DOMAIN map2.m)
        cells            == Flatten([n \in 1..Len(headers_in_both) |->
                                HeaderPairCells(rows1, rows2, headers_in_both[n],
                                                map1.m[headers_in_both[n]], map2.m[headers_in_both[n]],
                                                data_start_index, max_rows)])
        Differs(c)       == c.v1 # c.v2
        Same(c)          == c.v1 = c.v2
        differing        == SelectSeq(cells, Differs)
        detail(c)        == <<c.header, c.r + 1, cell_addr(c.r, c.i1, data_start_row, col_offset),
                              cell_addr(c.r, c.i2, data_start_row, col_offset), c.v1, c.v2>>
        common           == [headers_in_both  |-> headers_in_both,
                             missing_in_file2 |-> SortedStrings(DOMAIN map1.m \ DOMAIN map2.m),
                             missing_in_file1 |-> SortedStrings(DOMAIN map2.m \ DOMAIN map1.m),
                             dups1            |-> map1.duplicates,
                             dups2            |-> map2.duplicates,
                             matches          |-> Len(SelectSeq(cells, Same)),
                             mismatches       |-> Len(differing),
                             mismatch_details |-> [n \in 1..Len(differing) |-> detail(differing[n])],
                             rows_count1      |-> Len(rows1),
                             rows_count2      |-> Len(rows2),
                             max_cols1        |-> Greatest({0} \cup {Len(rows1[r]) : r \in 1..Len(rows1)}),
                             max_cols2        |-> Greatest({0} \cup {Len(rows2[r]) : r \in 1..Len(rows2)})]
    IN  IF script = "excelCompare"
        THEN common @@ [order_differences |->
                           Flatten([n \in 1..Len(headers_in_both) |->
                               HeaderOrderDifferences(headers_in_both[n], map1.m[headers_in_both[n]],
                                                      map2.m[headers_in_both[n]], col_offset)])]
        ELSE common @@ [mismatch_count_by_header |->
                           [h \in {differing[n].header : n \in 1..Len(differing)} |->
                               Len(SelectSeq(differing, LAMBDA c : c.header = h))]]

(***************************************************************************)
(* rateBuildUp/rbu.py and DataValidation_RBU/rbuSpace.py: detect_sections, *)
(* find_tables, extract_records.  The second script is the first with      *)
(* section_row 0 and a field raw in its records.                           *)
(***************************************************************************)
\* is_number(x) of these two scripts: float(str(x).replace(",", "")) does not raise
is_number_rbu(x) ==
    \/ IsNanLiteral(RemoveChars(x, {","}))
    \/ IsDecimalLiteral(RemoveChars(x, {","}))

\* forward_fill_row(row) of rbu.py, forward_fill(row) of rbuSpace.py, up to column c
RECURSIVE ForwardFilledAt(_, _)
ForwardFilledAt(row, c) ==
    IF c < 0 THEN <<>>
    ELSE IF ~is_blank(row[c + 1]) THEN Strip(row[c + 1])
    ELSE ForwardFilledAt(row, c - 1)

\* detect_sections(grid, section_row)[c]
detect_sections(grid, section_row, c) == ForwardFilledAt(grid[section_row + 1], c)

RowIsBlank(grid, r) == \A c \in 0..(GridWidth(grid) - 1) : is_blank(GridCell(grid, r, c))

\* find_tables(grid, start_row): the runs (top, bottom) of non-blank rows from r on
RECURSIVE find_tables(_, _)
find_tables(grid, r) ==
    IF r >= GridRows(grid) THEN <<>>
    ELSE IF RowIsBlank(grid, r) THEN find_tables(grid, r + 1)
    ELSE LET bottom == Least({b \in r..(GridRows(grid) - 1) :
                                 b + 1 = GridRows(grid) \/ RowIsBlank(grid, b + 1)})
         IN  <<[top |-> r, bottom |-> bottom]>> \o find_tables(grid, bottom + 2)

\* the first loop of extract_records over a table: the rows before the first
\* row with a number are header rows; data_start is None where no row has one
HeaderRowsOfTable(grid, top, bottom) ==
    LET numeric == {r \in top..bottom :
                       \E c \in 0..(GridWidth(grid) - 1) : is_number_rbu(GridCell(grid, r, c))}
        data_start == IF numeric # {} THEN Least(numeric) ELSE None
    IN  [header_rows |-> [i \in 1..((IF data_start = None THEN bottom + 1 ELSE data_start) - top)
                             |-> top + i - 1],
         data_start  |-> data_start]

\* row[i] of Python for an index that may be -1: the last cell
PyIndex(row, i) == IF i < 0 THEN row[Len(row) + i + 1] ELSE row[i + 1]

\* channel = str(row[num_cols[0] - 1]).strip()
RowChannel(row, first_num_col) == Strip(PyIndex(row, first_num_col - 1))

\* the records extract_records appends for data row r of a table with header rows header_rows
DataRowRecords(script, grid, source, section_row, header_rows, r) ==
    LET row      == grid[r + 1]
        num_cols == Ascending({c \in 0..(Len(row) - 1) : is_number_rbu(row[c + 1])})
        rec(c)   == [source    |-> source,
                     section   |-> detect_sections(grid, section_row, c),
                     group     |-> ForwardFilledAt(grid[header_rows[1] + 1], c),
                     sub_group |-> ForwardFilledAt(grid[header_rows[2] + 1], c),
                     period    |-> ForwardFilledAt(grid[header_rows[3] + 1], c),
                     channel   |-> RowChannel(row, num_cols[1]),
                     value     |-> PyFloat(RemoveChars(row[c + 1], {","}))]
    IN  [n \in 1..Len(num_cols) |->
            IF script = "DataValidation_RBU/rbuSpace.py"
            THEN rec(num_cols[n]) @@ [raw |-> row[num_cols[n] + 1]]
            ELSE rec(num_cols[n])]

(***************************************************************************)
(* DataValidation_RBU/compareRateBuildUp.py: build_records.  rows is a     *)
(* list of rows of cells, rows and columns numbered from 0 as in the code. *)
(***************************************************************************)
\* DATE_RE.search(s): an MM/YY - MM/YY window with a hyphen
DATE_RE_search(s) ==
    \E i \in 1..Len(s) : DateWindowEnd(s, i) > 0 /\ s[SkipWs(s, i + 5)] = "-"

\* YEAR_RE.match(s)
YEAR_RE_match(s) == Len(s) = 4 /\ \A i \in 1..4 : s[i] \in Digits

\* rows[r][c], the empty text past the end of the row
ValueAt(rows, r, c) == IF c < Len(rows[r + 1]) THEN rows[r + 1][c + 1] ELSE <<>>

\* max(len(r) for r in rows) if rows else 0
WidthOf(rows) == IF rows = <<>> THEN 0 ELSE Greatest({Len(rows[i]) : i \in 1..Len(rows)})

\* a token counted by is_mostly_numeric: float() takes it, or it is a date or a year
CountsAsNumber(t) ==
    \/ IsNanLiteral(FloatyBody(t))
    \/ IsDecimalLiteral(FloatyBody(t))
    \/ DATE_RE_search(Strip(t))
    \/ YEAR_RE_match(Strip(t))

\* is_mostly_numeric(tokens) with threshold 0.6
is_mostly_numeric(tokens) ==
    LET total == Cardinality({i \in 1..Len(tokens) : Strip(tokens[i]) # <<>>})
        nums  == Cardinality({i \in 1..Len(tokens) :
                                 Strip(tokens[i]) # <<>> /\ CountsAsNumber(tokens[i])})
    IN  total > 0 /\ nums * 10 >= total * 6

\* the k-th smallest of a set of positions' gaps: gaps is a sequence of integers
KthSmallest(gaps, k) ==
    Least({v \in SeqToSet(gaps) : Cardinality({i \in 1..Len(gaps) : gaps[i] <= v}) >= k})

\* twice statistics.median(gaps), 0 for no gaps
TwiceMedian(gaps) ==
    IF gaps = <<>> THEN 0
    ELSE IF Len(gaps) % 2 = 1 THEN 2 * KthSmallest(gaps, (Len(gaps) + 1) \div 2)
    ELSE KthSmallest(gaps, Len(gaps) \div 2) + KthSmallest(gaps, Len(gaps) \div 2 + 1)

\* the positions of a set of columns in increasing order
RECURSIVE Increasing(_)
Increasing(S) == IF S = {} THEN <<>> ELSE <<Least(S)>> \o Increasing(S \ {Least(S)})

looks_like_text_band(row) ==
    LET pos    == Increasing({i \in 0..(Len(row) - 1) : normalize_text(row[i + 1]) # <<>>})
        tokens == [n \in 1..Len(pos) |-> normalize_text(row[pos[n] + 1])]
        gaps   == [n \in 1..(Len(pos) - 1) |-> pos[n + 1] - pos[n]]
    IN  /\ Len(tokens) >= 2
        /\ \A n \in 1..Len(tokens) : ~DATE_RE_search(tokens[n]) /\ ~YEAR_RE_match(tokens[n])
        /\ ~is_mostly_numeric(tokens)
        /\ TwiceMedian(gaps) >= 6

\* forward_fill(line, width) of compareRateBuildUp.py
RECURSIVE forward_fill_line(_, _)
forward_fill_line(line, width) ==
    IF width = 0 THEN <<>>
    ELSE LET before == forward_fill_line(line, width - 1)
             tok    == normalize_text(IF width <= Len(line) THEN line[width] ELSE <<>>)
         IN  Append(before, IF tok # <<>> THEN tok
                            ELSE IF before = <<>> THEN <<>> ELSE before[Len(before)])

\* find_global_stage_row: the first text band among the top 100 rows, or None
find_global_stage_row(rows) ==
    LET bands == {r \in 0..(Len(rows) - 1) : r < 100 /\ looks_like_text_band(rows[r + 1])}
    IN  IF bands = {} THEN None ELSE Least(bands)

\* build_map_from_row: column -> forward-filled label, for the labelled columns
build_map_from_row(rows, row_idx) ==
    IF row_idx = None THEN EmptyDict
    ELSE LET ff == forward_fill_line(rows[row_idx + 1], WidthOf(rows))
         IN  [i \in {c \in 0..(WidthOf(rows) - 1) : ff[c + 1] # <<>>} |-> ff[i + 1]]

\* m.get(c, "")
MapGet(m, c) == IF c \in DOMAIN m THEN m[c] ELSE <<>>

row_has_many_dates(row) ==
    Cardinality({i \in 1..Len(row) : DATE_RE_search(row[i])}) >= 4

find_detail_rows(rows) ==
    Increasing({r \in 0..(Len(rows) - 1) : row_has_many_dates(rows[r + 1])})

\* the nearest text band above row r within scan_up = 120 rows, or None
BandAbove(rows, r) ==
    LET bands == {q \in 0..(r - 1) : q > r - 120 /\ looks_like_text_band(rows[q + 1])}
    IN  IF bands = {} THEN None ELSE Greatest(bands)

\* find_sub_and_group_rows: <<sub_idx, grp_idx>>
find_sub_and_group_rows(rows, detail_row) ==
    LET sub_idx == BandAbove(rows, detail_row)
    IN  <<sub_idx, IF sub_idx = None THEN None ELSE BandAbove(rows, sub_idx)>>

\* collect_header_rows: the three rows that are not None and the text rows
\* of range(subgroup_row + 1, group_row), in increasing order
collect_header_rows(rows, detail_row, subgroup_row, group_row) ==
    Increasing(({detail_row, subgroup_row, group_row} \ {None})
        \cup (IF subgroup_row # None /\ group_row # None
              THEN {r \in (subgroup_row + 1)..(group_row - 1) :
                       LET tokens == [n \in 1..Len(rows[r + 1]) |-> normalize_text(rows[r + 1][n])]
                       IN  /\ \E n \in 1..Len(tokens) : tokens[n] # <<>>
                           /\ ~is_mostly_numeric(tokens)
                           /\ \A n \in 1..Len(tokens) :
                                 ~DATE_RE_search(tokens[n]) /\ ~YEAR_RE_match(tokens[n])}
              ELSE {}))

\* the first token of reversed(ff_headers) in column c that is a date or a
\* year, from header number n downward; the empty text for none
RECURSIVE PeriodAbove(_, _, _)
PeriodAbove(ff_headers, n, c) ==
    IF n = 0 THEN <<>>
    ELSE IF DATE_RE_search(normalize_text(ff_headers[n][c + 1]))
            \/ YEAR_RE_match(normalize_text(ff_headers[n][c + 1]))
    THEN normalize_text(ff_headers[n][c + 1])
    ELSE PeriodAbove(ff_headers, n - 1, c)

\* the period of column c under one detail row
PeriodOf(ff_headers, detail_ff, c) ==
    LET period_cell == normalize_text(detail_ff[c + 1])
    IN  IF DATE_RE_search(period_cell) \/ YEAR_RE_match(period_cell) THEN period_cell
        ELSE IF PeriodAbove(ff_headers, Len(ff_headers), c) # <<>>
        THEN PeriodAbove(ff_headers, Len(ff_headers), c)
        ELSE period_cell

\* ch: the first non-blank normalised cell of a row, or the empty text
FirstToken(row) ==
    LET filled == {i \in 1..Len(row) : normalize_text(row[i]) # <<>>}
    IN  IF filled = {} THEN <<>> ELSE normalize_text(row[Least(filled)])

\* end = max(start, next_detail - 2), the last row the row loop may reach
LastRowOf(rows, detail_rows, drow) ==
    LET later       == {r \in SeqToSet(detail_rows) : r > drow}
        next_detail == IF later = {} THEN Len(rows) ELSE Least(later)
    IN  IF drow + 1 > next_detail - 2 THEN drow + 1 ELSE next_detail - 2

\* the Records of column c under detail row drow: for r in range(start, min(end+1, len(rows)))
ColumnRecords(rows, stage_map, detail_rows, drow, c) ==
    LET sg          == find_sub_and_group_rows(rows, drow)
        header_rows == collect_header_rows(rows, drow, sg[1], sg[2])
        ff_headers  == [n \in 1..Len(header_rows) |->
                           forward_fill_line(rows[header_rows[n] + 1], WidthOf(rows))]
        detail_ff   == forward_fill_line(rows[drow + 1], WidthOf(rows))
        section     == normalize_text(MapGet(stage_map, c))
        group       == normalize_text(MapGet(build_map_from_row(rows, sg[2]), c))
        subgroup    == normalize_text(MapGet(build_map_from_row(rows, sg[1]), c))
        period      == PeriodOf(ff_headers, detail_ff, c)
        start       == drow + 1
        stop        == IF LastRowOf(rows, detail_rows, drow) + 1 < Len(rows)
                       THEN LastRowOf(rows, detail_rows, drow) + 1 ELSE Len(rows)
    IN  IF \A x \in {section, group, subgroup, period} : normalize_text(x) = <<>> THEN <<>>
        ELSE Flatten([n \in 1..(stop - start) |->
                 LET r == start + n - 1
                 IN  IF FirstToken(rows[r + 1]) = <<>> THEN <<>>
                     ELSE <<[section |-> section, group |-> group, subgroup |-> subgroup,
                             period |-> period, channel |-> FirstToken(rows[r + 1]),
                             col_letter |-> index_to_col_letters(c),
                             value |-> ValueAt(rows, r, c)]>>])

\* build_records(rows): detail row by detail row, column by column, row by row
build_records(rows) ==
    LET stage_map   == build_map_from_row(rows, find_global_stage_row(rows))
        detail_rows == find_detail_rows(rows)
    IN  Flatten([d \in 1..Len(detail_rows) |->
            Flatten([n \in 1..WidthOf(rows) |->
                ColumnRecords(rows, stage_map, detail_rows, detail_rows[d], n - 1)])])

(***************************************************************************)
(* The comparison scripts at work.  An export is a list of facts, a label  *)
(* and a value text each; every script reads the same two exports in its   *)
(* own record format.                                                      *)
(***************************************************************************)
Programs == {"compareRateBuildUp", "rbuSpace", "codeWithRow", "DataValidationRates",
             "DataValidationRAOutput"}

Txt2027 == <<"2", "0", "2", "7">>

\* the Records build_records hands to compare_records, one per fact in order:
\* the channel is the normalised label, the value the cell as it is
RecordsOf(file) ==
    [i \in 1..Len(file) |->
        [section |-> <<"F", "i", "n">>, group |-> <<"R", "x">>, subgroup |-> <<"B">>,
         period |-> Txt2027, channel |-> normalize_text(file[i].label),
         col_letter |-> <<UpperSeq[i]>>, value |-> file[i].value]]

\* the records extract_space_technique hands to rbuSpace.compare_records: one per
\* fact whose value looks numeric, the channel being the stripped label
RECURSIVE SpaceRecordsOf(_, _)
SpaceRecordsOf(file, src) ==
    IF file = <<>> THEN <<>>
    ELSE LET f == file[Len(file)]
         IN  SpaceRecordsOf(DropLast(file), src) \o
             (IF looks_numeric(f.value)
              THEN <<[source |-> src, section |-> <<"F", "i", "n">>,
                      group_path |-> <<<<"R", "x">>>>, channel |-> Strip(f.label),
                      metric |-> <<"B">>, date_window |-> Txt2027,
                      value_text |-> Strip(f.value), value_num |-> parse_numeric(f.value),
                      row_index |-> Len(file), col_index |-> 1]>>
              ELSE <<>>)

TableHeaders ==
    <<<<"F", "o", "r", "m", "u", "l", "a", "r", "y">>, <<"N", "D", "C", "1", "1">>,
      <<"P", "r", "i", "c", "e">>>>

\* the data rows of the keyed scripts: the key columns, then the value
TableRowsOf(file) ==
    [i \in 1..Len(file) |-> <<<<"F", "1">>, file[i].label, file[i].value>>]

RatesHeaders ==
    <<<<"D", "r", "u", "g", " ", "N", "a", "m", "e">>, <<"N", "D", "C", "1", "1">>,
      <<"P", "r", "i", "c", "e">>>>

NoOutput == [none |-> TRUE]

\* compareRateBuildUp.main: compare_records on the records of the two files
RunCompareRateBuildUp ==
    /\ cmpPc = "input"
    /\ prog = "compareRateBuildUp"
    /\ out' = compare_records(RecordsOf(file1), RecordsOf(file2), PyFloat(tolArg).val)
    /\ cmpPc' = "done"
    /\ UNCHANGED <<prog, file1, file2, tolArg>>
    /\ UNCHANGED OutsideCmp

\* rbuSpace.main: compare_records on all records, then the report's summary counts
RunSpaceCompare ==
    /\ cmpPc = "input"
    /\ prog = "rbuSpace"
    /\ LET agg == aggregate_records(SpaceRecordsOf(file1, "A") \o SpaceRecordsOf(file2, "B"),
                                    <<"A", "B">>)
       IN  out' = [agg |-> agg, total_keys |-> Cardinality(DOMAIN agg),
                   changed_keys |-> changed_keys(agg, <<"A", "B">>)]
    /\ cmpPc' = "done"
    /\ UNCHANGED <<prog, file1, file2, tolArg>>
    /\ UNCHANGED OutsideCmp

\* codeWithRow.main: compare_key_based on the data rows of the two files
RunCompareKeyBased ==
    /\ cmpPc = "input"
    /\ prog = "codeWithRow"
    /\ out' = compare_key_based(TableHeaders, TableRowsOf(file1),
                                TableHeaders, TableRowsOf(file2))
    /\ cmpPc' = "done"
    /\ UNCHANGED <<prog, file1, file2, tolArg>>
    /\ UNCHANGED OutsideCmp

\* DataValidationRates.main: the row maps of the sheets, whose first row holds
\* the headers and whose data start on row 2, then compare_by_row_key
RunCompareByRowKey ==
    /\ cmpPc = "input"
    /\ prog = "DataValidationRates"
    /\ LET map1 == rates_build_row_map(<<RatesHeaders>> \o TableRowsOf(file1), RatesHeaders, 2)
           map2 == rates_build_row_map(<<RatesHeaders>> \o TableRowsOf(file2), RatesHeaders, 2)
       IN  out' = [map1 |-> map1, map2 |-> map2,
                   result |-> compare_by_row_key(RatesHeaders, RatesHeaders, map1, map2)]
    /\ cmpPc' = "done"
    /\ UNCHANGED <<prog, file1, file2, tolArg>>
    /\ UNCHANGED OutsideCmp

\* DataValidationRAOutput.main: values_equal on the first value of either file
RunValuesEqual ==
    /\ cmpPc = "input"
    /\ prog = "DataValidationRAOutput"
    /\ file1 # <<>> /\ file2 # <<>>
    /\ out' = [equal |-> values_equal(file1[1].value, file2[1].value)]
    /\ cmpPc' = "done"
    /\ UNCHANGED <<prog, file1, file2, tolArg>>
    /\ UNCHANGED OutsideCmp

NextCmp ==
    \/ RunCompareRateBuildUp
    \/ RunSpaceCompare
    \/ RunCompareKeyBased
    \/ RunCompareByRowKey
    \/ RunValuesEqual

ParkCmp ==
    /\ prog = "none"
    /\ file1 = <<>>
    /\ file2 = <<>>
    /\ tolArg = <<"0">>
    /\ out = NoOutput
    /\ cmpPc = "off"

\* the lists over the set S of length at most n
RECURSIVE SeqsUpTo(_, _)
SeqsUpTo(S, n) ==
    IF n = 0 THEN {<<>>}
    ELSE LET shorter == SeqsUpTo(S, n - 1)
         IN  shorter \cup {Append(q, x) : q \in {t \in shorter : Len(t) = n - 1}, x \in S}

MaxFacts == 3

MaxFactsOther == 2

Facts(labels, values) == {[label |-> l, value |-> v] : l \in labels, v \in values}

\* one key with two values, two further keys
FactPool == Facts({<<"R", "x">>}, {<<"1">>, <<"2">>}) \cup Facts({<<"M">>, <<"T">>}, {<<"1">>})

\* exports of up to MaxFacts facts, keys repeating within and across the files
InitCmp ==
    /\ prog \in Programs
    /\ file1 \in SeqsUpTo(FactPool, MaxFacts)
    /\ file2 \in SeqsUpTo(FactPool, MaxFactsOther)
    /\ tolArg = <<"0", ".", "0">>
    /\ out = NoOutput
    /\ cmpPc = "input"

PairLabels ==
    {<<"R", "x">>, <<"r", "x">>, <<" ", "R", "x", " ">>,
     <<"M", " ", "x">>, <<"M", " ", " ", "x">>}

PairValues ==
    {<<"1", ".", "0", "0">>, <<"1", ".", "0", "1">>, <<"1", ".", "0", "2">>,
     <<"$", "1", ",", "2", "0", "0", ".", "0", "0">>,
     <<"1", "2", "0", "0", ".", "0", "1">>,
     <<"1", "1", "9", "8", ".", "0", "0">>,
     <<"1", "2", "0", "0", ".", "0", "1", "1">>,
     <<"1", "2", "%">>, <<"a", "b", "c">>, <<"A", "b", "c">>, <<" ", "a", "b", "c">>,
     <<"a", "b">>, <<>>}

Tolerances == {<<"0", ".", "0">>, <<"0", ".", "0", "1">>}

\* one fact per export, the labels and the value texts varying in form
InitCmpPair ==
    /\ prog \in Programs
    /\ file1 \in {<<f>> : f \in Facts(PairLabels, PairValues)}
    /\ file2 \in {<<f>> : f \in Facts(PairLabels, PairValues)}
    /\ tolArg \in Tolerances
    /\ out = NoOutput
    /\ cmpPc = "input"

(***************************************************************************)
(* Label normalisation applied once and twice.                             *)
(***************************************************************************)
NormOf(s) ==
    [normalize_text   |-> normalize_text(s),
     normalize        |-> normalize(s),
     normalize_header |-> normalize_header(s)]

MaxLabelLen == 5

LabelAlphabet == {"a", "R", " ", "\t", "ENDASH", "1", "BOM"}

InitNorm ==
    /\ nText \in StringsUpTo(LabelAlphabet, MaxLabelLen)
    /\ nOnce = NormOf(<<>>)
    /\ nTwice = NormOf(<<>>)
    /\ nPc = "input"

ParkNorm ==
    /\ nText = <<>>
    /\ nOnce = NormOf(<<>>)
    /\ nTwice = NormOf(<<>>)
    /\ nPc = "off"

\* the label is normalised by each of the three normalisers
NormalizeOnce ==
    /\ nPc = "input"
    /\ nOnce' = NormOf(nText)
    /\ nPc' = "once"
    /\ UNCHANGED <<nText, nTwice>>
    /\ UNCHANGED OutsideNorm

\* each normaliser is applied to its own output
NormalizeAgain ==
    /\ nPc = "once"
    /\ nTwice' = [normalize_text   |-> normalize_text(nOnce.normalize_text),
                  normalize        |-> normalize(nOnce.normalize),
                  normalize_header |-> normalize_header(nOnce.normalize_header)]
    /\ nPc' = "twice"
    /\ UNCHANGED <<nText, nOnce>>
    /\ UNCHANGED OutsideNorm

NextNorm == NormalizeOnce \/ NormalizeAgain

(***************************************************************************)
(* rbuSpace classifying and parsing one cell.                              *)
(***************************************************************************)
MaxGroups == 1

RECURSIVE CommaGroups(_)
CommaGroups(g) == IF g = 0 THEN <<>> ELSE <<",", "2", "0", "0">> \o CommaGroups(g - 1)

CellPrefixes == {<<>>, <<"$">>, <<"RUPEE">>, <<"$", " ">>, <<" ">>}

CellSigns == {<<>>, <<"-">>}

CellIntegers ==
    {lead \o CommaGroups(g) : lead \in {<<"1">>, <<"1", "2">>}, g \in 0..MaxGroups}
        \cup {<<"1", "2", "0", "0">>, <<>>}

CellFractions == {<<>>, <<".", "0", "0">>, <<".", "5">>, <<".">>}

CellSuffixes == {<<>>, <<"%">>}

\* number-like cells in every combination of their parts, and some text cells
Cells ==
    {p \o g \o i \o f \o x : p \in CellPrefixes, g \in CellSigns, i \in CellIntegers,
                              f \in CellFractions, x \in CellSuffixes}
        \cup {<<"R", "x">>, <<"n", "a", "n">>, <<"1", "/", "2">>}

InitNum ==
    /\ cCell \in Cells
    /\ cLooks = FALSE
    /\ cParsed = NoValue
    /\ cPc = "cell"

ParkNum ==
    /\ cCell = <<>>
    /\ cLooks = FALSE
    /\ cParsed = NoValue
    /\ cPc = "off"

\* looks_numeric(val) on the cell
LooksNumeric ==
    /\ cPc = "cell"
    /\ cLooks' = looks_numeric(cCell)
    /\ cPc' = "looked"
    /\ UNCHANGED <<cCell, cParsed>>
    /\ UNCHANGED OutsideNum

\* parse_numeric(val) on the cell
ParseNumeric ==
    /\ cPc = "looked"
    /\ cParsed' = parse_numeric(cCell)
    /\ cPc' = "parsed"
    /\ UNCHANGED <<cCell, cLooks>>
    /\ UNCHANGED OutsideNum

NextNum == LooksNumeric \/ ParseNumeric

(***************************************************************************)
(* find_table_blocks_in_section, one iteration of its loop at a time.      *)
(***************************************************************************)
BlkRows == 4

BlkCols == 2

MaxBlocks == 4

\* the grids of the given shape over a set of cell texts
Grids(rows, cols, cells) == [1..rows -> [1..cols -> cells]]

\* the runs of consecutive columns of a grid of the given width
ColumnRuns(width) ==
    {[i \in 1..(last - first + 1) |-> first + i - 1] :
        first \in 0..(width - 1), last \in 0..(width - 1)} \ {<<>>}

InitBlocks ==
    /\ bGrid \in Grids(BlkRows, BlkCols, {<<>>, <<"x">>})
    /\ bCols \in ColumnRuns(BlkCols)
    /\ bSectionRow \in 0..(BlkRows - 1)
    /\ bR = 0
    /\ bBlocks = <<>>
    /\ bPc = "call"

ParkBlocks ==
    /\ bGrid = <<>>
    /\ bCols = <<>>
    /\ bSectionRow = 0
    /\ bR = 0
    /\ bBlocks = <<>>
    /\ bPc = "off"

\* r = section_row + 1
EnterScan ==
    /\ bPc = "call"
    /\ bR' = bSectionRow + 1
    /\ bPc' = "scan"
    /\ UNCHANGED <<bGrid, bCols, bSectionRow, bBlocks>>
    /\ UNCHANGED OutsideBlocks

\* top is None: break, return blocks
LeaveScan ==
    /\ bPc = "scan"
    /\ BlockAt(bGrid, bCols, bR).top = None
    /\ bPc' = "returned"
    /\ UNCHANGED <<bGrid, bCols, bSectionRow, bR, bBlocks>>
    /\ UNCHANGED OutsideBlocks

\* an iteration that appends a block and sets r = bottom + 1; the list of
\* blocks is followed up to MaxBlocks entries
AppendBlock ==
    /\ bPc = "scan"
    /\ BlockAt(bGrid, bCols, bR).top # None
    /\ Len(bBlocks) < MaxBlocks
    /\ bBlocks' = Append(bBlocks, BlockAt(bGrid, bCols, bR))
    /\ bR' = BlockAt(bGrid, bCols, bR).bottom + 1
    /\ UNCHANGED <<bGrid, bCols, bSectionRow, bPc>>
    /\ UNCHANGED OutsideBlocks

NextBlocks == EnterScan \/ LeaveScan \/ AppendBlock

(***************************************************************************)
(* rbuSpace.main on two inputs: extraction, then comparison and report.    *)
(***************************************************************************)
MainRows == 2

MainCols == 2

MainCells == {<<>>, <<"A">>, <<"1">>}

min_blank_sep == 2

Sources == <<"A", "B">>

\* the same grid with every 1 made a 2
Revised(grid) ==
    [r \in 1..Len(grid) |-> [c \in 1..Len(grid[r]) |->
        IF grid[r][c] = <<"1">> THEN <<"2">> ELSE grid[r][c]]]

\* the second input is the first one again or a revision of it; the options
\* are left out (None) or given
InitMain ==
    /\ mGrids \in UNION {{<<g, g>>, <<g, Revised(g)>>} :
                            g \in Grids(MainRows, MainCols, MainCells)}
    /\ mHeaderRows \in {None} \cup 0..MainRows
    /\ mSectionRow \in {None} \cup 0..(MainRows - 1)
    /\ mNext = 1
    /\ mRecords = <<>>
    /\ mOut = NoOutput
    /\ mPc = "extract"

ParkMain ==
    /\ mGrids = <<>>
    /\ mHeaderRows = None
    /\ mSectionRow = None
    /\ mNext = 1
    /\ mRecords = <<>>
    /\ mOut = NoOutput
    /\ mPc = "off"

\* hdr_rows and section_row as main settles them for a grid
HdrRowsOf(grid) == IF mHeaderRows # None THEN mHeaderRows ELSE detect_header_rows(grid)

SectionRowOf(grid) ==
    IF mSectionRow # None THEN mSectionRow
    ELSE first_non_empty_header_row(grid, HdrRowsOf(grid))

\* the call of extract_space_technique main makes for input number i
ExtractionOf(i) ==
    extract_space_technique(mGrids[i], Sources[i], HdrRowsOf(mGrids[i]),
                            SectionRowOf(mGrids[i]), min_blank_sep, FALSE)

\* one turn of the loop over the inputs: the records of the input are added
ExtractSource ==
    /\ mPc = "extract"
    /\ mNext <= Len(mGrids)
    /\ ExtractionOf(mNext).returns
    /\ mRecords' = mRecords \o ExtractionOf(mNext).records
    /\ mNext' = mNext + 1
    /\ UNCHANGED <<mGrids, mHeaderRows, mSectionRow, mOut, mPc>>
    /\ UNCHANGED OutsideMain

\* the call of extract_space_technique does not return
ExtractNeverReturns ==
    /\ mPc = "extract"
    /\ mNext <= Len(mGrids)
    /\ ~ExtractionOf(mNext).returns
    /\ mPc' = "stuck"
    /\ UNCHANGED <<mGrids, mHeaderRows, mSectionRow, mNext, mRecords, mOut>>
    /\ UNCHANGED OutsideMain

\* if not all_records: return, no report written
ReturnNoRecords ==
    /\ mPc = "extract"
    /\ mNext > Len(mGrids)
    /\ mRecords = <<>>
    /\ mOut' = [report |-> FALSE]
    /\ mPc' = "done"
    /\ UNCHANGED <<mGrids, mHeaderRows, mSectionRow, mNext, mRecords>>
    /\ UNCHANGED OutsideMain

\* compare_records and the summary of generate_html_report
WriteReport ==
    /\ mPc = "extract"
    /\ mNext > Len(mGrids)
    /\ mRecords # <<>>
    /\ LET agg == aggregate_records(mRecords, Sources)
       IN  mOut' = [report |-> TRUE, agg |-> agg, total_keys |-> Cardinality(DOMAIN agg),
                    changed_keys |-> changed_keys(agg, Sources)]
    /\ mPc' = "done"
    /\ UNCHANGED <<mGrids, mHeaderRows, mSectionRow, mNext, mRecords>>
    /\ UNCHANGED OutsideMain

NextMain == ExtractSource \/ ExtractNeverReturns \/ ReturnNoRecords \/ WriteReport

(***************************************************************************)
(* DataValidationRates.main (and rates.main): the composite headers of a   *)
(* sheet as csv.reader gives it, its rows of any length.                   *)
(***************************************************************************)
MaxHeaderCols == 2

HeaderCells == {<<>>, <<"G">>, <<"Y", "e", "a", "r">>, <<" ", "d">>}

\* the group row and the detail row of a sheet, each of up to MaxHeaderCols cells
InitHeaders ==
    /\ hRows \in [1..2 -> SeqsUpTo(HeaderCells, MaxHeaderCols)]
    /\ hGroupRow \in 1..2
    /\ hDetailRow \in 1..2
    /\ hHeaders = <<>>
    /\ hPc = "rows"

ParkHeaders ==
    /\ hRows = <<>>
    /\ hGroupRow = 1
    /\ hDetailRow = 1
    /\ hHeaders = <<>>
    /\ hPc = "off"

\* headers = build_composite_headers(rows, args.group_row, args.detail_row)
BuildCompositeHeaders ==
    /\ hPc = "rows"
    /\ \E built \in {build_composite_headers(hRows, hGroupRow, hDetailRow)} :
          /\ hHeaders' = built.headers
          /\ hRows' = built.rows
    /\ hPc' = "headers"
    /\ UNCHANGED <<hGroupRow, hDetailRow>>
    /\ UNCHANGED OutsideHeaders

NextHeaders == BuildCompositeHeaders

(***************************************************************************)
(* A call of extract_space_technique on one grid.                          *)
(***************************************************************************)
ExtRows == 3

ExtCols == 2

ExtCells == {<<>>, <<"A">>, <<"1">>, Standalone}

\* what the call has: its section map, its blocks and the records it returns
ExtractionOutcome(grid, header_rows, section_row) ==
    Only({[returns  |-> found.returns,
           records  |-> found.records,
           sec_map  |-> sec_map,
           blocks   |-> IF found.returns
                        THEN ExtractionBlocks(grid, header_rows, section_row, sec_map)
                        ELSE <<>>] :
             sec_map \in {map_section_labels_by_col(grid, section_row, header_rows,
                                                    header_rows, min_blank_sep)},
             found \in {extract_space_technique(grid, "A", header_rows, section_row,
                                                min_blank_sep, FALSE)}})

\* a grid of rows of equal width, as read_csv_grid pads them
InitExtract ==
    /\ eGrid \in Grids(ExtRows, ExtCols, ExtCells)
    /\ eHeaderRows \in 0..(ExtRows - 1)
    /\ eSectionRow \in 0..(ExtRows - 2)
    /\ eOut = NoOutput
    /\ ePc = "call"

\* the rows of a grid that are longer than its first row
LongerRows(grid) == {r \in 1..Len(grid) : Len(grid[r]) > Len(grid[1])}

\* a grid that was not padded: no row is shorter than the first one, so that
\* every cell the call reads is there, and some row is longer
InitRagged ==
    /\ eGrid \in {g \in [1..ExtRows -> UNION {[1..w -> {<<>>, <<"1">>}] :
                                                 w \in ExtCols..(ExtCols + 1)}] :
                     /\ Len(g[1]) = ExtCols
                     /\ LongerRows(g) # {}}
    /\ eHeaderRows \in 0..(ExtRows - 1)
    /\ eSectionRow \in 0..(ExtRows - 2)
    /\ eOut = NoOutput
    /\ ePc = "call"

ParkExtract ==
    /\ eGrid = <<>>
    /\ eHeaderRows = 0
    /\ eSectionRow = 0
    /\ eOut = NoOutput
    /\ ePc = "off"

\* recs = extract_space_technique(grid, ...), the call returning
ExtractGrid ==
    /\ ePc = "call"
    /\ \E outcome \in {ExtractionOutcome(eGrid, eHeaderRows, eSectionRow)} :
          /\ outcome.returns
          /\ eOut' = outcome
    /\ ePc' = "returned"
    /\ UNCHANGED <<eGrid, eHeaderRows, eSectionRow>>
    /\ UNCHANGED OutsideExtract

\* the call never returning: find_table_blocks_in_section repeats an iteration
ExtractGridNeverReturns ==
    /\ ePc = "call"
    /\ ~extract_space_technique(eGrid, "A", eHeaderRows, eSectionRow,
                                min_blank_sep, FALSE).returns
    /\ ePc' = "stuck"
    /\ UNCHANGED <<eGrid, eHeaderRows, eSectionRow, eOut>>
    /\ UNCHANGED OutsideExtract

NextExtract == ExtractGrid \/ ExtractGridNeverReturns

(***************************************************************************)
(* compare_cells_name_based on two sheets, and again after the columns of  *)
(* file 2 (headers and cells together) are put in another order.           *)
(***************************************************************************)
NameCols == 2

NameRows == 2

HeaderNames == {<<>>, <<"a">>, <<"b">>, <<" ", "a">>}

NameCells == {<<>>, <<"x">>}

\* the orders in which n columns can be put
ColumnOrders(n) == {p \in [1..n -> 1..n] : \A i, j \in 1..n : p[i] = p[j] => i = j}

\* a row (of headers or of cells) with its columns in order p
Reordered(row, p) == [i \in 1..Len(row) |-> row[p[i]]]

ReorderedRows(rows, p) == [r \in 1..Len(rows) |-> Reordered(rows[r], p)]

\* two sheets of NameCols columns, file 1 of one to NameRows rows, file 2 of one row less
InitNameBased ==
    /\ xScript \in {"updatedHtml", "excelCompare"}
    /\ xHeaders1 \in [1..NameCols -> HeaderNames]
    /\ xHeaders2 \in [1..NameCols -> HeaderNames]
    /\ \E n \in 1..NameRows : xRows1 \in Grids(n, NameCols, NameCells)
    /\ xRows2 \in Grids(NameRows - 1, NameCols, NameCells)
    /\ xStartRow \in 1..2
    /\ xOrder \in ColumnOrders(NameCols)
    /\ xOut = NoOutput
    /\ xOutReordered = NoOutput
    /\ xPc = "sheets"

ParkNameBased ==
    /\ xScript = "off"
    /\ xHeaders1 = <<>>
    /\ xHeaders2 = <<>>
    /\ xRows1 = <<>>
    /\ xRows2 = <<>>
    /\ xStartRow = 1
    /\ xOrder = <<>>
    /\ xOut = NoOutput
    /\ xOutReordered = NoOutput
    /\ xPc = "off"

\* comparison_result = compare_cells_name_based(rows1, rows2, headers1, headers2, start_row, "A")
CompareNameBased ==
    /\ xPc = "sheets"
    /\ xOut' = compare_cells_name_based(xScript, xRows1, xRows2, xHeaders1, xHeaders2,
                                        xStartRow, <<"A">>)
    /\ xPc' = "compared"
    /\ UNCHANGED <<xScript, xHeaders1, xHeaders2, xRows1, xRows2, xStartRow, xOrder, xOutReordered>>
    /\ UNCHANGED OutsideNameBased

\* the same call on file 1 and on file 2 with its columns in order xOrder
CompareReordered ==
    /\ xPc = "compared"
    /\ xOutReordered' = compare_cells_name_based(xScript, xRows1, ReorderedRows(xRows2, xOrder),
                                                 xHeaders1, Reordered(xHeaders2, xOrder),
                                                 xStartRow, <<"A">>)
    /\ xPc' = "reordered"
    /\ UNCHANGED <<xScript, xHeaders1, xHeaders2, xRows1, xRows2, xStartRow, xOrder, xOut>>
    /\ UNCHANGED OutsideNameBased

NextNameBased == CompareNameBased \/ CompareReordered

(***************************************************************************)
(* map_section_labels_by_col, one iteration of its outer loop at a time.   *)
(***************************************************************************)
SecRows == 4

SecCols == 2

SecCells == {<<>>, <<"A">>, <<"B", " ">>}

\* cell = grid[section_row][c] if section_row < len(grid) else ""
SectionCell(grid, section_row, c) ==
    IF section_row < GridRows(grid) THEN GridCell(grid, section_row, c) ELSE <<>>

\* width = len(grid[0]); sec_map = {}; c = 0
InitSections ==
    /\ sGrid \in Grids(SecRows, SecCols, SecCells)
    /\ sHeaderRows \in 0..(SecRows - 1)
    /\ sSectionRow \in 0..(SecRows - 3)
    /\ sC = 0
    /\ sMap = EmptyDict
    /\ sPc = "scan"

ParkSections ==
    /\ sGrid = <<>>
    /\ sHeaderRows = 0
    /\ sSectionRow = 0
    /\ sC = 0
    /\ sMap = EmptyDict
    /\ sPc = "off"

\* if is_blank(cell): c += 1; continue
SkipBlankSectionCell ==
    /\ sPc = "scan"
    /\ sC < GridWidth(sGrid)
    /\ is_blank(SectionCell(sGrid, sSectionRow, sC))
    /\ sC' = sC + 1
    /\ UNCHANGED <<sGrid, sHeaderRows, sSectionRow, sMap, sPc>>
    /\ UNCHANGED OutsideSections

\* label = str(cell).strip(); the inner loop from c2 = c to its break; c = max(c2 + 1, c2)
FillSection ==
    /\ sPc = "scan"
    /\ sC < GridWidth(sGrid)
    /\ ~is_blank(SectionCell(sGrid, sSectionRow, sC))
    /\ \E c2 \in {SectionFillStop(sGrid, sC, sHeaderRows, sHeaderRows, min_blank_sep)} :
          /\ sMap' = [x \in (sC..(c2 - 1)) \cup DOMAIN sMap |->
                         IF x \in sC..(c2 - 1) THEN Strip(SectionCell(sGrid, sSectionRow, sC))
                         ELSE sMap[x]]
          /\ sC' = Max(c2 + 1, c2)
    /\ UNCHANGED <<sGrid, sHeaderRows, sSectionRow, sPc>>
    /\ UNCHANGED OutsideSections

\* while c < width fails: return sec_map
ReturnSectionMap ==
    /\ sPc = "scan"
    /\ sC >= GridWidth(sGrid)
    /\ sPc' = "returned"
    /\ UNCHANGED <<sGrid, sHeaderRows, sSectionRow, sC, sMap>>
    /\ UNCHANGED OutsideSections

NextSections == SkipBlankSectionCell \/ FillSection \/ ReturnSectionMap

(***************************************************************************)
(* extract_records of rbu.py and of DataValidation_RBU/rbuSpace.py, one    *)
(* table and one data row at a time.                                       *)
(***************************************************************************)
TblRows == 5

TblCols == 2

TblCells == {<<>>, <<"A">>, <<"1">>}

\* a grid as read_xlsx or read_csv gives it; rbuSpace.py has section_row 0
InitTables ==
    /\ tScript \in {"rateBuildUp/rbu.py", "DataValidation_RBU/rbuSpace.py"}
    /\ tGrid \in Grids(TblRows, TblCols, TblCells)
    /\ tSectionRow \in 0..1
    /\ tScript = "DataValidation_RBU/rbuSpace.py" => tSectionRow = 0
    /\ tTables = <<>>
    /\ tHeaderRows = <<>>
    /\ tR = 0
    /\ tBottom = 0
    /\ tRecords = <<>>
    /\ tPc = "call"

ParkTables ==
    /\ tScript = "off"
    /\ tGrid = <<>>
    /\ tSectionRow = 0
    /\ tTables = <<>>
    /\ tHeaderRows = <<>>
    /\ tR = 0
    /\ tBottom = 0
    /\ tRecords = <<>>
    /\ tPc = "off"

\* section_map = detect_sections(grid, section_row); records = [];
\* tables = find_tables(grid, section_row + 1)
FindTables ==
    /\ tPc = "call"
    /\ tTables' = find_tables(tGrid, tSectionRow + 1)
    /\ tPc' = "tables"
    /\ UNCHANGED <<tScript, tGrid, tSectionRow, tHeaderRows, tR, tBottom, tRecords>>
    /\ UNCHANGED OutsideTables

\* if len(header_rows) < 3: continue
SkipTable ==
    /\ tPc = "tables"
    /\ tTables # <<>>
    /\ Len(HeaderRowsOfTable(tGrid, tTables[1].top, tTables[1].bottom).header_rows) < 3
    /\ tTables' = Tail(tTables)
    /\ UNCHANGED <<tScript, tGrid, tSectionRow, tHeaderRows, tR, tBottom, tRecords, tPc>>
    /\ UNCHANGED OutsideTables

\* range(data_start, bottom + 1) with data_start None: TypeError
RaiseNoDataStart ==
    /\ tPc = "tables"
    /\ tTables # <<>>
    /\ Len(HeaderRowsOfTable(tGrid, tTables[1].top, tTables[1].bottom).header_rows) >= 3
    /\ HeaderRowsOfTable(tGrid, tTables[1].top, tTables[1].bottom).data_start = None
    /\ tPc' = "raised"
    /\ UNCHANGED <<tScript, tGrid, tSectionRow, tTables, tHeaderRows, tR, tBottom, tRecords>>
    /\ UNCHANGED OutsideTables

\* g_row, sg_row, p_row = header_rows[:3]; for r in range(data_start, bottom + 1)
EnterDataRows ==
    /\ tPc = "tables"
    /\ tTables # <<>>
    /\ \E found \in {HeaderRowsOfTable(tGrid, tTables[1].top, tTables[1].bottom)} :
          /\ Len(found.header_rows) >= 3
          /\ found.data_start # None
          /\ tHeaderRows' = found.header_rows
          /\ tR' = found.data_start
    /\ tBottom' = tTables[1].bottom
    /\ tTables' = Tail(tTables)
    /\ tPc' = "rows"
    /\ UNCHANGED <<tScript, tGrid, tSectionRow, tRecords>>
    /\ UNCHANGED OutsideTables

\* one data row: its records are appended, none if it has no number
EmitRow ==
    /\ tPc = "rows"
    /\ tR <= tBottom
    /\ tRecords' = tRecords \o DataRowRecords(tScript, tGrid, tScript, tSectionRow, tHeaderRows, tR)
    /\ tR' = tR + 1
    /\ UNCHANGED <<tScript, tGrid, tSectionRow, tTables, tHeaderRows, tBottom, tPc>>
    /\ UNCHANGED OutsideTables

\* the data rows of the table are done
LeaveTable ==
    /\ tPc = "rows"
    /\ tR > tBottom
    /\ tPc' = "tables"
    /\ UNCHANGED <<tScript, tGrid, tSectionRow, tTables, tHeaderRows, tR, tBottom, tRecords>>
    /\ UNCHANGED OutsideTables

\* return records
ReturnRecords ==
    /\ tPc = "tables"
    /\ tTables = <<>>
    /\ tPc' = "returned"
    /\ UNCHANGED <<tScript, tGrid, tSectionRow, tTables, tHeaderRows, tR, tBottom, tRecords>>
    /\ UNCHANGED OutsideTables

NextTables ==
    \/ FindTables
    \/ SkipTable
    \/ RaiseNoDataStart
    \/ EnterDataRows
    \/ EmitRow
    \/ LeaveTable
    \/ ReturnRecords

(***************************************************************************)
(* extract_space_technique on one grid with year and date window labels,   *)
(* once with date window parsing and once with --no-date-window.           *)
(***************************************************************************)
DateRows == 3

DateCols == 2

TxtWindow == <<"0", "7", "/", "2", "7", "-", "0", "6", "/", "2", "8">>

DateCells == {<<>>, <<"A">>, Txt2027, TxtWindow}

InitDates ==
    /\ dGrid \in Grids(DateRows, DateCols, DateCells)
    /\ dHeaderRows \in 1..(DateRows - 1)
    /\ dSectionRow \in 0..(DateRows - 2)
    /\ dDated = NoOutput
    /\ dPlain = NoOutput
    /\ dPc = "call"

ParkDates ==
    /\ dGrid = <<>>
    /\ dHeaderRows = 0
    /\ dSectionRow = 0
    /\ dDated = NoOutput
    /\ dPlain = NoOutput
    /\ dPc = "off"

\* recs = extract_space_technique(grid, ..., no_date_window=False), the call returning
ExtractDated ==
    /\ dPc = "call"
    /\ \E found \in {extract_space_technique(dGrid, "A", dHeaderRows, dSectionRow,
                                             min_blank_sep, FALSE)} :
          /\ found.returns
          /\ dDated' = found
    /\ dPc' = "dated"
    /\ UNCHANGED <<dGrid, dHeaderRows, dSectionRow, dPlain>>
    /\ UNCHANGED OutsideDates

\* the call never returning: find_table_blocks_in_section repeats an iteration
DatedNeverReturns ==
    /\ dPc = "call"
    /\ ~extract_space_technique(dGrid, "A", dHeaderRows, dSectionRow,
                                min_blank_sep, FALSE).returns
    /\ dPc' = "stuck"
    /\ UNCHANGED <<dGrid, dHeaderRows, dSectionRow, dDated, dPlain>>
    /\ UNCHANGED OutsideDates

\* the same call with no_date_window=True
ExtractPlain ==
    /\ dPc = "dated"
    /\ \E found \in {extract_space_technique(dGrid, "A", dHeaderRows, dSectionRow,
                                             min_blank_sep, TRUE)} :
          /\ dPlain' = found
          /\ dPc' = IF found.returns THEN "both" ELSE "stuck"
    /\ UNCHANGED <<dGrid, dHeaderRows, dSectionRow, dDated>>
    /\ UNCHANGED OutsideDates

NextDates == ExtractDated \/ DatedNeverReturns \/ ExtractPlain

(***************************************************************************)
(* compareRateBuildUp.build_records on a sheet of up to BuildRows rows:    *)
(* detail rows of date windows, label bands, channel rows and blank rows.  *)
(***************************************************************************)
BuildRows == 4

SheetRows ==
    {<<TxtWindow, TxtWindow, TxtWindow, TxtWindow>>,
     <<<<>>, <<>>, <<>>, <<>>>>,
     <<<<"M">>, <<"1">>, <<>>, <<"2">>>>,
     <<<<"W">>, <<"3">>, <<"4">>, <<"5">>>>,
     <<<<>>, <<"6">>, <<>>, <<>>>>,
     <<<<"S">>, <<>>, <<>>, <<"T">>>>}

InitBuild ==
    /\ uRows \in SeqsUpTo(SheetRows, BuildRows)
    /\ uRows # <<>>
    /\ uRecs = <<>>
    /\ uPc = "sheet"

ParkBuild ==
    /\ uRows = <<>>
    /\ uRecs = <<>>
    /\ uPc = "off"

\* recs = build_records(rows)
BuildRecords ==
    /\ uPc = "sheet"
    /\ uRecs' = build_records(uRows)
    /\ uPc' = "built"
    /\ UNCHANGED uRows
    /\ UNCHANGED OutsideBuild

NextBuild == BuildRecords

(***************************************************************************)
(* Specifications: one per part of the repository, the other parts idle.   *)
(***************************************************************************)
NormStart ==
    InitNorm /\ ParkCmp /\ ParkNum /\ ParkBlocks /\ ParkMain /\ ParkHeaders /\ ParkExtract /\
    ParkNameBased /\ ParkSections /\ ParkTables /\ ParkDates /\ ParkBuild

SpecNorm == NormStart /\ [][NextNorm]_vars

CmpStart ==
    InitCmp /\ ParkNorm /\ ParkNum /\ ParkBlocks /\ ParkMain /\ ParkHeaders /\ ParkExtract /\
    ParkNameBased /\ ParkSections /\ ParkTables /\ ParkDates /\ ParkBuild

SpecCmp == CmpStart /\ [][NextCmp]_vars

CmpPairStart ==
    InitCmpPair /\ ParkNorm /\ ParkNum /\ ParkBlocks /\ ParkMain /\ ParkHeaders /\
    ParkExtract /\ ParkNameBased /\ ParkSections /\ ParkTables /\ ParkDates /\ ParkBuild

SpecCmpPair == CmpPairStart /\ [][NextCmp]_vars

NumStart ==
    InitNum /\ ParkNorm /\ ParkCmp /\ ParkBlocks /\ ParkMain /\ ParkHeaders /\ ParkExtract /\
    ParkNameBased /\ ParkSections /\ ParkTables /\ ParkDates /\ ParkBuild

SpecNum == NumStart /\ [][NextNum]_vars

BlocksStart ==
    InitBlocks /\ ParkNorm /\ ParkCmp /\ ParkNum /\ ParkMain /\ ParkHeaders /\ ParkExtract /\
    ParkNameBased /\ ParkSections /\ ParkTables /\ ParkDates /\ ParkBuild

SpecBlocks == BlocksStart /\ [][NextBlocks]_vars

MainStart ==
    InitMain /\ ParkNorm /\ ParkCmp /\ ParkNum /\ ParkBlocks /\ ParkHeaders /\ ParkExtract /\
    ParkNameBased /\ ParkSections /\ ParkTables /\ ParkDates /\ ParkBuild

SpecMain == MainStart /\ [][NextMain]_vars

HeadersStart ==
    InitHeaders /\ ParkNorm /\ ParkCmp /\ ParkNum /\ ParkBlocks /\ ParkMain /\ ParkExtract /\
    ParkNameBased /\ ParkSections /\ ParkTables /\ ParkDates /\ ParkBuild

SpecHeaders == HeadersStart /\ [][NextHeaders]_vars

ExtractStart ==
    InitExtract /\ ParkNorm /\ ParkCmp /\ ParkNum /\ ParkBlocks /\ ParkMain /\ ParkHeaders /\
    ParkNameBased /\ ParkSections /\ ParkTables /\ ParkDates /\ ParkBuild

SpecExtract == ExtractStart /\ [][NextExtract]_vars

RaggedStart ==
    InitRagged /\ ParkNorm /\ ParkCmp /\ ParkNum /\ ParkBlocks /\ ParkMain /\ ParkHeaders /\
    ParkNameBased /\ ParkSections /\ ParkTables /\ ParkDates /\ ParkBuild

SpecRagged == RaggedStart /\ [][NextExtract]_vars

NameBasedStart ==
    InitNameBased /\ ParkNorm /\ ParkCmp /\ ParkNum /\ ParkBlocks /\ ParkMain /\
    ParkHeaders /\ ParkExtract /\ ParkSections /\ ParkTables /\ ParkDates /\ ParkBuild

SpecNameBased == NameBasedStart /\ [][NextNameBased]_vars

SectionsStart ==
    InitSections /\ ParkNorm /\ ParkCmp /\ ParkNum /\ ParkBlocks /\ ParkMain /\
    ParkHeaders /\ ParkExtract /\ ParkNameBased /\ ParkTables /\ ParkDates /\ ParkBuild

SpecSections == SectionsStart /\ [][NextSections]_vars

TablesStart ==
    InitTables /\ ParkNorm /\ ParkCmp /\ ParkNum /\ ParkBlocks /\ ParkMain /\ ParkHeaders /\
    ParkExtract /\ ParkNameBased /\ ParkSections /\ ParkDates /\ ParkBuild

SpecTables == TablesStart /\ [][NextTables]_vars

DatesStart ==
    InitDates /\ ParkNorm /\ ParkCmp /\ ParkNum /\ ParkBlocks /\ ParkMain /\ ParkHeaders /\
    ParkExtract /\ ParkNameBased /\ ParkSections /\ ParkTables /\ ParkBuild

SpecDates == DatesStart /\ [][NextDates]_vars

BuildStart ==
    InitBuild /\ ParkNorm /\ ParkCmp /\ ParkNum /\ ParkBlocks /\ ParkMain /\ ParkHeaders /\
    ParkExtract /\ ParkNameBased /\ ParkSections /\ ParkTables /\ ParkDates

SpecBuild == BuildStart /\ [][NextBuild]_vars

(***************************************************************************)
(* Properties.                                                             *)
(***************************************************************************)
\* the exact decimal value of a numeric cell text, as a person reads it
DecimalOf(v) == PyDecimal(FloatyBody(v))

\* the one shared key of a pair of one-record files, if the two keys are equal
PairShared == DOMAIN out.idx1 \cap DOMAIN out.idx2

\* C1: the tolerance boundary is inclusive.  For a shared key whose two values
\* both parse as numbers, compare_records counts a match when |v1 - v2| <=
\* tolerance and reports a numeric mismatch only when |v1 - v2| > tolerance;
\* values_equal does the same with the tolerance 0.01.
C1_ToleranceInclusive ==
    /\ (cmpPc = "done" /\ prog = "compareRateBuildUp" /\ PairShared # {}
            /\ is_floaty(file1[1].value) /\ is_floaty(file2[1].value))
          => LET within == DecAbsDiffLeq(DecimalOf(file1[1].value),
                                         DecimalOf(file2[1].value), PyDecimal(tolArg))
             IN  /\ within => (out.matches = 1 /\ out.mismatches = <<>>)
                 /\ ~within => (out.matches = 0 /\ Len(out.mismatches) = 1
                                  /\ out.mismatches[1].kind = "numeric")
    /\ (cmpPc = "done" /\ prog = "DataValidationRAOutput"
            /\ to_decimal(file1[1].value).ok /\ to_decimal(file2[1].value).ok)
          => (out.equal <=> DecAbsDiffLeq(to_decimal(file1[1].value),
                                          to_decimal(file2[1].value), OneHundredth))

\* the position of the first fact of a file whose key, under keyOf, is k
FirstAt(keyed, k) ==
    CHOOSE i \in 1..Len(keyed) : keyed[i] = k /\ \A j \in 1..(i - 1) : keyed[j] # k

KeysCRB(file) == [i \in 1..Len(file) |-> RecordKey(RecordsOf(file)[i])]

KeysSpace(file) == [i \in 1..Len(file) |-> key_tuple(SpaceRecordsOf(file, "A")[i])]

\* C2: when one source holds several records with the same composite key, the
\* value kept for that key and source is the one of the first record in input
\* order (rbuSpace.compare_records and the index of compareRateBuildUp).
C2_FirstRecordKept ==
    /\ (cmpPc = "done" /\ prog = "compareRateBuildUp")
          => /\ \A k \in DOMAIN out.idx1 :
                    out.idx1[k][1] = file1[FirstAt(KeysCRB(file1), k)].value
             /\ \A k \in DOMAIN out.idx2 :
                    out.idx2[k][1] = file2[FirstAt(KeysCRB(file2), k)].value
    /\ (cmpPc = "done" /\ prog = "rbuSpace")
          => \A k \in DOMAIN out.agg :
                /\ k \in SeqToSet(KeysSpace(file1))
                      => out.agg[k].texts["A"] = file1[FirstAt(KeysSpace(file1), k)].value
                /\ k \in SeqToSet(KeysSpace(file2))
                      => out.agg[k].texts["B"] = file2[FirstAt(KeysSpace(file2), k)].value

KeysTable(file) ==
    [i \in 1..Len(file) |-> RowKey(TableRowsOf(file)[i], TableHeaders, KEY_COLUMNS)]

Occurrences(q, x) == Cardinality({i \in 1..Len(q) : q[i] = x})

\* what C3 says of one file, its row map and its duplicates list
FirstRowKept(file, row_map, duplicates) ==
    /\ DOMAIN row_map = SeqToSet(KeysTable(file))
    /\ \A k \in DOMAIN row_map :
          /\ row_map[k] = TableRowsOf(file)[FirstAt(KeysTable(file), k)]
          /\ Occurrences(duplicates, k) = Occurrences(KeysTable(file), k) - 1
    /\ Cardinality(DOMAIN row_map) + Len(duplicates) = Len(file)

\* C3: build_row_map keeps for every key the first row carrying it and appends
\* the key to the duplicates once for each later row with the same key, so
\* len(row_map) + len(duplicates) is the number of rows.
C3_FirstRowKeptDuplicatesListed ==
    (cmpPc = "done" /\ prog = "codeWithRow")
        => /\ FirstRowKept(file1, out.map1, out.duplicates_file1)
           /\ FirstRowKept(file2, out.map2, out.duplicates_file2)

\* a key on three rows of file 1, the first and the last row differing
C3_Witness ==
    /\ cmpPc = "done" /\ prog = "codeWithRow"
    /\ Len(out.duplicates_file1) = 2
    /\ out.duplicates_file1[1] = out.duplicates_file1[2]
    /\ file1[1].value # file1[3].value
    /\ Len(out.duplicates_file2) = 1

\* a label as the specification normalises it: trimmed, inner whitespace
\* collapsed, case folded
FoldedLabel(l) == Lower(CollapseWs(Strip(l)))

\* C4: two records whose key fields differ only in letter case, leading or
\* trailing blanks or runs of inner whitespace get the same composite key
\* (rbuSpace.key_tuple and the key of compareRateBuildUp.compare_records).
C4_KeysAlignedAfterNormalization ==
    /\ (cmpPc = "done" /\ prog = "compareRateBuildUp"
            /\ FoldedLabel(file1[1].label) = FoldedLabel(file2[1].label))
          => DOMAIN out.idx1 = DOMAIN out.idx2
    /\ (cmpPc = "done" /\ prog = "rbuSpace"
            /\ FoldedLabel(file1[1].label) = FoldedLabel(file2[1].label)
            /\ looks_numeric(file1[1].value) /\ looks_numeric(file2[1].value))
          => Cardinality(DOMAIN out.agg) = 1

\* three sets of keys are pairwise disjoint and together are all the keys
Partition(only1, only2, shared, keys1, keys2) ==
    /\ only1 \cap only2 = {}
    /\ only1 \cap shared = {}
    /\ only2 \cap shared = {}
    /\ only1 \cup only2 \cup shared = keys1 \cup keys2

\* C5: the keys only in file 1, the keys only in file 2 and the shared keys are
\* pairwise disjoint and their union is keys(file1) \cup keys(file2)
\* (compare_key_based and compare_by_row_key).
C5_KeySetsPartition ==
    /\ (cmpPc = "done" /\ prog = "codeWithRow")
          => Partition(SeqToSet(out.missing_in_report), SeqToSet(out.extra_in_report),
                       SeqToSet(out.common),
                       SeqToSet(KeysTable(file1)), SeqToSet(KeysTable(file2)))
    /\ (cmpPc = "done" /\ prog = "DataValidationRates")
          => Partition(SeqToSet(out.result.extra_file1), SeqToSet(out.result.extra_file2),
                       out.result.common_keys, DOMAIN out.map1, DOMAIN out.map2)

\* compare_key_based with a key of each kind: only in file 1, only in file 2, shared
C5_Witness ==
    /\ cmpPc = "done" /\ prog = "codeWithRow"
    /\ out.missing_in_report # <<>>
    /\ out.extra_in_report # <<>>
    /\ out.common # <<>>

\* C6: a key present in exactly one of the two sources never produces a
\* mismatch and is never counted as a match; compare_key_based lists it in
\* missing_in_report (only in file 1) or extra_in_report (only in file 2).
C6_UnsharedKeyNeverCompared ==
    /\ (cmpPc = "done" /\ prog = "compareRateBuildUp")
          => LET keys1 == SeqToSet(KeysCRB(file1))
                 keys2 == SeqToSet(KeysCRB(file2))
             IN  /\ \A i \in 1..Len(out.mismatches) :
                        <<out.mismatches[i].section, out.mismatches[i].group,
                          out.mismatches[i].subgroup, out.mismatches[i].period,
                          out.mismatches[i].channel>> \in keys1 \cap keys2
                 /\ out.matches + Len(out.mismatches) = Cardinality(keys1 \cap keys2)
    /\ (cmpPc = "done" /\ prog = "codeWithRow")
          => LET keys1 == SeqToSet(KeysTable(file1))
                 keys2 == SeqToSet(KeysTable(file2))
             IN  /\ \A i \in 1..Len(out.mismatch_details) :
                        out.mismatch_details[i][1] \in keys1 \cap keys2
                 /\ out.matches + out.mismatches
                        = Cardinality(keys1 \cap keys2) * Len(out.common_headers)
                 /\ \A k \in keys1 \ keys2 : k \in SeqToSet(out.missing_in_report)
                 /\ \A k \in keys2 \ keys1 : k \in SeqToSet(out.extra_in_report)

\* a shared key with a mismatch beside a key of file 1 alone and one of file 2 alone
C6_Witness ==
    /\ cmpPc = "done" /\ prog = "codeWithRow"
    /\ out.mismatches > 0
    /\ Len(out.missing_in_report) = 1
    /\ Len(out.extra_in_report) = 1
    /\ Len(file1) = MaxFacts

\* a cell parses as a floating-point number after a currency symbol, the
\* thousands separators and a trailing % are removed
NumericAfterStripping(s) ==
    PyFloat(RemoveChars(DropPct(Strip(s)), CurrencySymbols \cup {","})).ok

\* C7: looks_numeric is true of every cell that parses as a floating-point
\* number after removing a currency symbol, thousands separators and a trailing
\* %, such as $1,200.00; parse_numeric divides the parsed value by 100 when the
\* cell ends in %.
C7_NumericCellsLookNumeric ==
    cPc = "parsed" =>
        /\ NumericAfterStripping(cCell) => cLooks
        /\ (EndsWithPct(Strip(cCell)) /\ cParsed.ok)
              => cParsed.val = DblDiv100(PyFloat(RemoveChars(DropPct(Strip(cCell)),
                                                             {","})).val)

\* C8: find_table_blocks_in_section terminates: each iteration of its scan
\* loop moves the scan row r strictly downward.
C8_ScanRowMovesDown == [][(bPc = "scan" /\ bPc' = "scan") => bR' > bR]_vars

\* every cell of the grid below the section row is blank
BlankBelow(grid, section_row) ==
    \A r \in (section_row + 1)..(GridRows(grid) - 1) :
        \A c \in 0..(GridWidth(grid) - 1) : is_blank(GridCell(grid, r, c))

\* C9: a grid in which every cell below the section row is blank yields zero
\* records from extract_space_technique, whatever the section row contains,
\* and therefore zero keys and zero changed keys in the comparison.
C9_BlankGridNoRecords ==
    /\ \A i \in 1..(mNext - 1) :
          BlankBelow(mGrids[i], SectionRowOf(mGrids[i]))
              => \A n \in 1..Len(mRecords) : mRecords[n].source # Sources[i]
    /\ \A i \in 1..Len(mGrids) :
          (mPc = "extract" /\ mNext = i /\ BlankBelow(mGrids[i], SectionRowOf(mGrids[i])))
              => ExtractionOf(i).returns
    /\ (mPc = "done" /\ \A i \in 1..Len(mGrids) :
                            BlankBelow(mGrids[i], SectionRowOf(mGrids[i])))
          => /\ mRecords = <<>>
             /\ ~mOut.report
             /\ DOMAIN aggregate_records(mRecords, Sources) = {}
             /\ changed_keys(aggregate_records(mRecords, Sources), Sources) = 0

\* both inputs blank below a section row that holds numbers, the run finished
C9_Witness ==
    /\ mPc = "done"
    /\ \A i \in 1..Len(mGrids) :
          /\ BlankBelow(mGrids[i], SectionRowOf(mGrids[i]))
          /\ SectionRowOf(mGrids[i]) < GridRows(mGrids[i]) - 1
          /\ HdrRowsOf(mGrids[i]) = 0
          /\ \A c \in 0..(GridWidth(mGrids[i]) - 1) :
                looks_numeric(GridCell(mGrids[i], SectionRowOf(mGrids[i]), c))
    /\ mGrids[1] # mGrids[2]

\* C10: label normalisation is idempotent: normalising a normalised label
\* changes nothing, for normalize_text, normalize and normalize_header.
C10_NormalizeIdempotent == nPc = "twice" => nTwice = nOnce

\* a label that all three normalisers change, normalised twice
C10_Witness ==
    /\ nPc = "twice"
    /\ nOnce.normalize_text # nText
    /\ nOnce.normalize # nText
    /\ nOnce.normalize_header # nText
    /\ nOnce.normalize_text # nOnce.normalize

\* C11: the grid handed to the core is never modified: extract_space_technique
\* and build_composite_headers leave every row of their input with the length
\* and the cells it had before the call.
C11_GridNeverModified == [][hRows' = hRows /\ mGrids' = mGrids]_vars

\* C12: a grid whose rows do not all have the same width is rejected by
\* extract_space_technique: the call never returns a record list for it.
C12_RaggedGridRejected ==
    ~(ePc = "returned" /\ \E r \in 1..Len(eGrid) : Len(eGrid[r]) # Len(eGrid[1]))

\* what a mismatch detail says apart from the two cell addresses
DetailFacts(result) ==
    {<<result.mismatch_details[n][1], result.mismatch_details[n][2],
       result.mismatch_details[n][5], result.mismatch_details[n][6]>> :
        n \in 1..Len(result.mismatch_details)}

\* C13: compare_cells_name_based pairs columns by header name, not by position:
\* when no non-empty header name occurs twice in a file, putting the columns of
\* file 2 (headers and cells together) in another order leaves the matches
\* count, the mismatches count and the set of (header, row, file 1 value,
\* file 2 value) mismatch details unchanged.
C13_ColumnOrderIrrelevant ==
    (xPc = "reordered" /\ xOut.dups1 = <<>> /\ xOut.dups2 = <<>>)
        => /\ xOutReordered.matches = xOut.matches
           /\ xOutReordered.mismatches = xOut.mismatches
           /\ DetailFacts(xOutReordered) = DetailFacts(xOut)

\* two shared names whose columns changed places in file 2, with cells that
\* match and cells that differ
C13_Witness ==
    /\ xPc = "reordered"
    /\ xOut.dups1 = <<>> /\ xOut.dups2 = <<>>
    /\ Len(xOut.headers_in_both) = 2
    /\ Reordered(xHeaders2, xOrder) # xHeaders2
    /\ xOut.matches > 0
    /\ xOut.mismatches > 0
    /\ xOutReordered.mismatch_details # xOut.mismatch_details

\* the inner loop of the model agrees with the whole function
SectionMapAsComputed ==
    sPc = "returned"
        => sMap = map_section_labels_by_col(sGrid, sSectionRow, sHeaderRows, sHeaderRows, min_blank_sep)

\* C14: in the map returned by map_section_labels_by_col, every column whose
\* own section-row cell is non-blank is mapped to that cell's trimmed text,
\* never to the forward-filled label of an earlier column.
C14_OwnLabelWins ==
    sPc = "returned"
        => \A c \in DOMAIN sMap :
              ~is_blank(SectionCell(sGrid, sSectionRow, c))
                  => sMap[c] = Strip(SectionCell(sGrid, sSectionRow, c))

\* the column has min_blank_sep blank cells in a row among its header rows
HasBlankHeaderRun(grid, col, header_rows, n) ==
    \E r0 \in 0..(Min(header_rows, GridRows(grid)) - n) :
        \A r \in r0..(r0 + n - 1) : is_blank(GridCell(grid, r, col))

\* C15: a column ends the current section run exactly when it has at least
\* min_blank_sep consecutive blank cells among its header rows or no non-blank
\* cell at or below the data start row: of the columns the inner loop of
\* map_section_labels_by_col looks at, the one it breaks at, and no other, is
\* such a column.
C15_RunEndsAtSeparator ==
    [][(sPc = "scan" /\ sPc' = "scan" /\ sC < GridWidth(sGrid)
            /\ ~is_blank(SectionCell(sGrid, sSectionRow, sC)))
        => \A col \in sC..Min(sC' - 1, GridWidth(sGrid) - 1) :
              (col = sC' - 1) <=> \/ HasBlankHeaderRun(sGrid, col, sHeaderRows, min_blank_sep)
                                  \/ ~column_has_any_data(sGrid, col, sHeaderRows)]_vars

\* the section row of the grid has no non-blank cell
SectionRowBlank(grid, section_row) ==
    \A c \in 0..(GridWidth(grid) - 1) : is_blank(SectionCell(grid, section_row, c))

\* C16 as stated: when the section row is entirely blank the section map is
\* empty and every record has section "Standalone"; and a record's section is
\* "Standalone" exactly when its column is not in the section map.
C16_StandaloneIffUnmapped ==
    ePc = "returned"
        => /\ SectionRowBlank(eGrid, eSectionRow)
                 => /\ eOut.sec_map = EmptyDict
                    /\ \A n \in 1..Len(eOut.records) : eOut.records[n].section = Standalone
           /\ \A n \in 1..Len(eOut.records) :
                 eOut.records[n].section = Standalone
                     <=> eOut.records[n].col_index \notin DOMAIN eOut.sec_map

\* C16: when the section row is entirely blank the section map is empty and
\* every record has section "Standalone"; and a record's section is
\* "Standalone" exactly when its column is not in the section map or is mapped
\* to a section label that is itself the text "Standalone"; the section of a
\* record of a mapped column is the label its column is mapped to.
C16_StandaloneIffUnmappedOrSoLabelled ==
    ePc = "returned"
        => /\ SectionRowBlank(eGrid, eSectionRow)
                 => /\ eOut.sec_map = EmptyDict
                    /\ \A n \in 1..Len(eOut.records) : eOut.records[n].section = Standalone
           /\ \A n \in 1..Len(eOut.records) :
                 /\ eOut.records[n].section = Standalone
                       <=> \/ eOut.records[n].col_index \notin DOMAIN eOut.sec_map
                           \/ eOut.sec_map[eOut.records[n].col_index] = Standalone
                 /\ eOut.records[n].col_index \in DOMAIN eOut.sec_map
                       => eOut.records[n].section = eOut.sec_map[eOut.records[n].col_index]

\* one extraction with a record of a labelled column under its label and a
\* record of an unlabelled column under "Standalone"
C16_Witness ==
    /\ ePc = "returned"
    /\ \E n \in 1..Len(eOut.records) :
          /\ eOut.records[n].col_index \in DOMAIN eOut.sec_map
          /\ eOut.records[n].section # Standalone
    /\ \E n \in 1..Len(eOut.records) :
          /\ eOut.records[n].col_index \notin DOMAIN eOut.sec_map
          /\ eOut.records[n].section = Standalone

\* C17: every block (top, bottom, left, right) that find_table_blocks_in_section
\* appends has top <= bottom and left <= right, and of two blocks appended one
\* after the other the later one's top is strictly greater than the earlier
\* one's bottom.
C17_BlocksOrderedTopToBottom ==
    /\ \A n \in 1..Len(bBlocks) :
          /\ bBlocks[n].top <= bBlocks[n].bottom
          /\ bBlocks[n].left <= bBlocks[n].right
    /\ \A n \in 1..(Len(bBlocks) - 1) : bBlocks[n + 1].top > bBlocks[n].bottom

\* the positions in the run of the blank cells of a row
BlankPositions(grid, row, cols) == {i \in 1..Len(cols) : is_blank(GridCell(grid, row, cols[i]))}

\* C18: the right boundary of every block is the run column immediately before
\* the first blank cell of the block's top row, walking right from the run's
\* first column, or the run's last column when that row has no blank cell in
\* the run; so every cell of the top row in [left, right] is non-blank.
C18_RightBoundaryBeforeFirstBlank ==
    \A n \in 1..Len(bBlocks) :
        LET blank == BlankPositions(bGrid, bBlocks[n].top, bCols)
        IN  /\ blank = {} => bBlocks[n].right = bCols[Len(bCols)]
            /\ (blank # {} /\ Least(blank) > 1) => bBlocks[n].right = bCols[Least(blank) - 1]
            /\ \A c \in bBlocks[n].left..bBlocks[n].right :
                  ~is_blank(GridCell(bGrid, bBlocks[n].top, c))

\* C19: every record extract_space_technique emits comes from a data row: its
\* row_index is at or below the data start row, row_index >= header_rows.
C19_RecordsFromDataRows ==
    ePc = "returned"
        => \A n \in 1..Len(eOut.records) : eOut.records[n].row_index >= eHeaderRows

\* the rows of a block where more than half of the cells in [left, right] look numeric
NumericMajorityRows(grid, top, bottom, left, right) ==
    {r \in top..bottom :
        2 * Cardinality({c \in left..right : looks_numeric(GridCell(grid, r, c))})
            > right - left + 1}

\* C20: forward_fill_label_rows stops at the block's first numeric-majority
\* row: the label rows of a block are those of the rows above that row, and no
\* row at or below it is returned as a label row.
C20_LabelRowsAboveData ==
    ePc = "returned"
        => \A n \in 1..Len(eOut.blocks) :
              LET b    == eOut.blocks[n]
                  data == NumericMajorityRows(eGrid, b.top, b.bottom, b.left, b.right)
              IN  data # {}
                     => b.label_rows = forward_fill_label_rows(eGrid, b.top, Least(data) - 1,
                                                               b.left, b.right)

\* the records of an extraction that come from the cell (r, c)
RecordsAt(records, r, c) ==
    {n \in 1..Len(records) : records[n].row_index = r /\ records[n].col_index = c}

\* C21: a block with fewer than three label rows is not dropped and does not
\* fail: it yields one record for each numeric-looking cell of the block, each
\* with a group_path of at most as many entries as the block has label rows.
C21_FewLabelRowsStillRecords ==
    ePc = "returned"
        => \A n \in 1..Len(eOut.blocks) :
              Len(eOut.blocks[n].label_rows) < 3
                  => \A r \in eOut.blocks[n].top..eOut.blocks[n].bottom :
                        \A c \in eOut.blocks[n].left..eOut.blocks[n].right :
                            looks_numeric(GridCell(eGrid, r, c))
                                => /\ Cardinality(RecordsAt(eOut.records, r, c)) = 1
                                   /\ \A k \in RecordsAt(eOut.records, r, c) :
                                         Len(eOut.records[k].group_path)
                                             <= Len(eOut.blocks[n].label_rows)

\* a block with one label row and a record that has its label as group path,
\* and a block without label rows that has a record all the same
C21_Witness ==
    /\ ePc = "returned"
    /\ \E n \in 1..Len(eOut.blocks) :
          /\ Len(eOut.blocks[n].label_rows) = 1
          /\ \E k \in 1..Len(eOut.records) :
                /\ eOut.records[k].row_index \in eOut.blocks[n].top..eOut.blocks[n].bottom
                /\ eOut.records[k].col_index \in eOut.blocks[n].left..eOut.blocks[n].right
                /\ Len(eOut.records[k].group_path) = 1
    /\ \E n \in 1..Len(eOut.blocks) :
          /\ eOut.blocks[n].label_rows = <<>>
          /\ \E k \in 1..Len(eOut.records) :
                /\ eOut.records[k].row_index \in eOut.blocks[n].top..eOut.blocks[n].bottom
                /\ eOut.records[k].col_index \in eOut.blocks[n].left..eOut.blocks[n].right

\* C22: extract_records (rbu.py and DataValidation_RBU/rbuSpace.py) degrades
\* gracefully: for any rectangular grid it returns a record list and never
\* raises, also for a table of three or more non-blank rows without a number.
C22_ExtractRecordsNeverRaises ==
    tPc # "raised"

\* the channels the claim allows for a data row: the trimmed cells strictly
\* left of its first numeric column, or no channel when that column is 0
ChannelsLeftOf(row, first_num_col) ==
    IF first_num_col = 0 THEN {<<>>}
    ELSE {Strip(row[c + 1]) : c \in 0..(first_num_col - 1)}

\* C24: in extract_records the channel of a record is always taken from a
\* column strictly to the left of the row's first numeric column; when the
\* first numeric cell of a row is in column 0 no other cell of the row (such as
\* its last cell) is used as the channel.
C24_ChannelFromTheLeft ==
    [][(tPc = "rows" /\ tR' = tR + 1)
        => \A n \in (Len(tRecords) + 1)..Len(tRecords') :
              tRecords'[n].channel
                  \in ChannelsLeftOf(tGrid[tR + 1],
                                     Least({c \in 0..(TblCols - 1) : is_number_rbu(tGrid[tR + 1][c + 1])}))]_vars

\* the first numeric-looking column of row r among the columns left..right
FirstNumericCol(grid, r, left, right) ==
    Least({c \in left..right : looks_numeric(GridCell(grid, r, c))})

\* C23: the channel of every record of a row is the trimmed content of the cell
\* immediately left of the row's first numeric-looking cell within the block,
\* and the empty string when that cell is in the block's left column or the
\* cell left of it is blank.
C23_ChannelLeftOfFirstNumber ==
    ePc = "returned"
        => \A n \in 1..Len(eOut.blocks) :
              \A k \in 1..Len(eOut.records) :
                  LET b == eOut.blocks[n]
                      r == eOut.records[k].row_index
                      first == FirstNumericCol(eGrid, r, b.left, b.right)
                  IN  (r \in b.top..b.bottom /\ eOut.records[k].col_index \in b.left..b.right)
                         => eOut.records[k].channel =
                               IF first = b.left \/ is_blank(GridCell(eGrid, r, first - 1))
                               THEN <<>>
                               ELSE Strip(GridCell(eGrid, r, first - 1))

\* a row with a channel left of its first number and a row whose first number
\* is in the block's left column
C23_Witness ==
    /\ ePc = "returned"
    /\ \E k \in 1..Len(eOut.records) :
          /\ eOut.records[k].channel # <<>>
          /\ eOut.records[k].col_index > 0
    /\ \E n \in 1..Len(eOut.blocks) :
          \E k \in 1..Len(eOut.records) :
              /\ eOut.records[k].row_index \in eOut.blocks[n].top..eOut.blocks[n].bottom
              /\ eOut.records[k].col_index = eOut.blocks[n].left
              /\ eOut.blocks[n].right > eOut.blocks[n].left
              /\ eOut.records[k].channel = <<>>

\* the text is a 4-digit year
IsYearText(text) ==
    Len(Strip(text)) = 4 /\ \A i \in 1..4 : Strip(text)[i] \in Digits

\* the header rows of a column whose cell is non-blank and neither a date window nor a year
MetricRows(grid, header_rows, col) ==
    {r \in 0..(header_rows - 1) :
        /\ ~is_blank(GridCell(grid, r, col))
        /\ parse_date_window_token(GridCell(grid, r, col)) = <<>>
        /\ ~IsYearText(GridCell(grid, r, col))}

\* C25: with date window parsing enabled, the metric of a column is the
\* bottom-most non-blank header cell of the column that is neither an
\* MM/YY-MM/YY date window nor a 4-digit year, whenever there is such a cell.
C25_MetricSkipsDatesAndYears ==
    dPc \in {"dated", "both"}
        => \A k \in 1..Len(dDated.records) :
              LET col  == dDated.records[k].col_index
                  rows == MetricRows(dGrid, dHeaderRows, col)
              IN  rows # {}
                     => dDated.records[k].metric = Strip(GridCell(dGrid, Greatest(rows), col))

\* what a record says apart from its metric and its date window
RecordPlace(rec) ==
    <<rec.row_index, rec.col_index, rec.section, rec.group_path, rec.channel, rec.value_text>>

\* C26: date tokens never drive segmentation: extract_space_technique with
\* no_date_window true and with no_date_window false yields records with the
\* same (row_index, col_index, section, group_path, channel, value_text) in the
\* same order.
C26_DateWindowFlagKeepsRecords ==
    dPc = "both"
        => /\ Len(dPlain.records) = Len(dDated.records)
           /\ \A k \in 1..Len(dDated.records) :
                 RecordPlace(dPlain.records[k]) = RecordPlace(dDated.records[k])

\* two extractions of a grid with a date window label in its header rows that
\* differ in a record's metric
C26_Witness ==
    /\ dPc = "both"
    /\ \E r \in 0..(dHeaderRows - 1), c \in 0..(DateCols - 1) : GridCell(dGrid, r, c) = TxtWindow
    /\ \E k \in 1..Len(dDated.records) : dPlain.records[k].metric # dDated.records[k].metric

\* a value text without inner white space, white space normalised and in lower case
Squeezed(s) == Lower(Strip(s))

MismatchKey(m) == <<m.section, m.group, m.subgroup, m.period, m.channel>>

\* C28: compare_records (compareRateBuildUp.py) classifies every shared key
\* exactly once: matches + len(mismatches) equals the number of keys present in
\* both indexes, and no key appears in more than one Mismatch.
C28_SharedKeyClassifiedOnce ==
    (cmpPc = "done" /\ prog = "compareRateBuildUp")
        => LET shared     == SeqToSet(KeysCRB(file1)) \cap SeqToSet(KeysCRB(file2))
               mismatched == {MismatchKey(out.mismatches[i]) : i \in 1..Len(out.mismatches)}
           IN  /\ \A i, j \in 1..Len(out.mismatches) :
                      MismatchKey(out.mismatches[i]) = MismatchKey(out.mismatches[j]) => i = j
               /\ mismatched \subseteq shared
               /\ out.matches = Cardinality(shared \ mismatched)
               /\ out.matches + Len(out.mismatches) = Cardinality(shared)

\* a key repeated in a file, a mismatch and a match in one comparison
C28_Witness ==
    /\ cmpPc = "done" /\ prog = "compareRateBuildUp"
    /\ \E i, j \in 1..Len(file1) : i # j /\ KeysCRB(file1)[i] = KeysCRB(file1)[j]
    /\ Len(out.mismatches) = 1
    /\ out.matches = 1

\* C29: in build_records (compareRateBuildUp.py), for the last detail
\* (date-window) row of a grid, every row below it that contains a non-blank
\* cell contributes records for each labelled column, up to and including the
\* grid's final row.
C29_RowsBelowLastDetailRecorded ==
    (uPc = "built" /\ find_detail_rows(uRows) # <<>>)
        => LET last == Greatest(SeqToSet(find_detail_rows(uRows)))
               ff   == forward_fill_line(uRows[last + 1], WidthOf(uRows))
           IN  \A r \in (last + 1)..(Len(uRows) - 1) :
                  FirstToken(uRows[r + 1]) # <<>>
                     => \A c \in 0..(WidthOf(uRows) - 1) :
                           ff[c + 1] # <<>>
                              => \E k \in 1..Len(uRecs) :
                                    /\ uRecs[k].channel = FirstToken(uRows[r + 1])
                                    /\ uRecs[k].col_letter = index_to_col_letters(c)
                                    /\ uRecs[k].value = ValueAt(uRows, r, c)
                                    /\ uRecs[k].period = ff[c + 1]

\* the text is a cell address of the row: column letters followed by the row number
AddressOfRow(addr, row) ==
    \E c \in 0..(NameCols - 1) : addr = index_to_col_letters(c) \o IntText(row)

\* C30: in every mismatch detail produced by compare_cells_name_based
\* (updatedHtml.py, excelCompare.py), the row number embedded in the File1 and
\* File2 cell addresses equals the detail's reported Row field (the 1-based
\* index r+1 of the compared row), for every data_start_row >= 1.
C30_AddressRowIsReportedRow ==
    xPc \in {"compared", "reordered"}
        => \A n \in 1..Len(xOut.mismatch_details) :
              /\ AddressOfRow(xOut.mismatch_details[n][3], xOut.mismatch_details[n][2])
              /\ AddressOfRow(xOut.mismatch_details[n][4], xOut.mismatch_details[n][2])

====
